---- MODULE Spec2Model ----
(***************************************************************************)
(* Ingestion + transform pipeline of indigitall-bi-plataform.              *)
(*                                                                         *)
(*  - scripts/transform_bridge.py: raw.* snapshots -> public.* tables,     *)
(*    one transaction per entity, sync_state written after every attempt.  *)
(*  - scripts/extractors/*_extractor.py: page loops and single calls that  *)
(*    land raw snapshots.                                                  *)
(*                                                                         *)
(* SQL NULL / JSON null / Python None is NULL for text values and NullInt  *)
(* for numbers and dates.  Dates are day numbers from 1.  Ratios are held  *)
(* in hundredths (1234 is 12.34).                                          *)
(***************************************************************************)
EXTENDS Integers, Sequences, FiniteSets, TLC

\* ------------------------------------------------------------------------
\* Bounds of the model
\* ------------------------------------------------------------------------
MaxSnap == 2
MaxRuns == 2
MaxFaults == 2
MaxFull == 2

\* ------------------------------------------------------------------------
\* Values
\* ------------------------------------------------------------------------
NULL == "NULL"
NullInt == -1
\* a text that the cast to its column type rejects
BadInt == NullInt - 1
TENANT_ID == "visionamos"
APP_ID == "100274"

Coalesce(a, b) == IF a # NULL THEN a ELSE b

\* coalesce((elem->>'x')::int, 0)
CoalesceInt(a) == IF a = NullInt THEN 0 ELSE a

Min(a, b) == IF a <= b THEN a ELSE b
Max(a, b) == IF a >= b THEN a ELSE b

\* All orders in which a result set can be fetched: a SELECT without ORDER BY.
Perms(S) == { p \in [1..Cardinality(S) -> S] : \A x \in S : \E k \in DOMAIN p : p[k] = x }

\* ------------------------------------------------------------------------
\* State
\* ------------------------------------------------------------------------
VARIABLES
    raw,        \* raw.* tables: each a sequence of snapshots in insertion order
    db,         \* committed public.* tables: each a set of rows
    now,        \* the database clock
    pc,         \* "idle" | "running": position of main()
    idx,        \* index into TRANSFORMS of the next entity of the running main()
    results,    \* main()'s results dict: entity -> count, or -1
    runs,       \* completed runs of main()
    faults,     \* database faults injected so far
    last_run,   \* raw, db and results as the previous main() returned
    attempt,    \* what happened in the last iteration of main()'s loop
    api,        \* the remote endpoint being paged: its full pages and its last page
    x_ext,      \* the extractor whose _extract_for_app is running
    x_pc,       \* "idle" | "call" | "answered" | "returned" | "raised"
    x_phase,    \* index of the endpoint _extract_for_app is at
    x_page,     \* page_num of the page loop
    x_offset,   \* offset of the chat page loop
    x_total,    \* records counted by the page loop
    x_resp,     \* what the last self.client.get did
    x_calls,    \* every request issued, in order
    x_raw,      \* RAW_TABLE of the extractor: the snapshots stored, in order
    x_log,      \* the endpoints reported FAILED
    store,      \* the application's tables: messages, saved_queries, dashboards
    answer,     \* what the last DataService / StorageService read returned
    calls,      \* each client's toggle_favorite_* call: where it is, what it read
    txn         \* each concurrently started main(): its open transaction

tvars == <<raw, db, now, pc, idx, results, runs, faults, last_run, attempt>>
xvars == <<api, x_ext, x_pc, x_phase, x_page, x_offset, x_total, x_resp, x_calls, x_raw, x_log>>
svars == <<store, answer, calls>>
vars == <<raw, db, now, pc, idx, results, runs, faults, last_run, attempt,
          api, x_ext, x_pc, x_phase, x_page, x_offset, x_total, x_resp, x_calls, x_raw, x_log,
          store, answer, calls, txn>>

\* ------------------------------------------------------------------------
\* update_sync_state
\* ------------------------------------------------------------------------
Success == <<"s", "u", "c", "c", "e", "s", "s">>
ErrorPrefix == <<"e", "r", "r", "o", "r", ":", " ">>
ERR_CHARS == 200

\* str(exc)[:200]
Truncate(msg) == SubSeq(msg, 1, Min(Len(msg), ERR_CHARS))

\* f"error: {str(exc)[:200]}"
ErrorStatus(msg) == ErrorPrefix \o Truncate(msg)

\* Variant: ON CONFLICT (tenant_id, entity) DO NOTHING
update_sync_state_DoNothing(conn, entity, records, status, ts) ==
    LET new == [tenant_id |-> TENANT_ID, entity |-> entity, last_sync_at |-> ts,
                records_synced |-> records, status |-> status]
        hit == { t \in conn.sync_state : t.tenant_id = TENANT_ID /\ t.entity = entity }
    IN  [conn EXCEPT !.sync_state = IF hit = {} THEN @ \cup {new} ELSE @]

\* Variant: a plain INSERT into a table without the unique constraint
update_sync_state_InsertOnly(conn, entity, records, status, ts) ==
    [conn EXCEPT !.sync_state =
        @ \cup { [tenant_id |-> TENANT_ID, entity |-> entity, last_sync_at |-> ts,
                  records_synced |-> records, status |-> status] }]

\* INSERT ... ON CONFLICT (tenant_id, entity) DO UPDATE SET last_sync_at,
\* records_synced, status
update_sync_state(conn, entity, records, status, ts) ==
    LET new == [tenant_id |-> TENANT_ID, entity |-> entity, last_sync_at |-> ts,
                records_synced |-> records, status |-> status]
        hit == { t \in conn.sync_state : t.tenant_id = TENANT_ID /\ t.entity = entity }
    IN  [conn EXCEPT !.sync_state =
            IF hit = {}
            THEN @ \cup {new}
            ELSE (@ \ hit) \cup { [t EXCEPT !.last_sync_at = ts,
                                            !.records_synced = records,
                                            !.status = status] : t \in hit }]

\* ------------------------------------------------------------------------
\* Deduplication (row_number() OVER (PARTITION BY ... ORDER BY ...) = 1)
\* ------------------------------------------------------------------------
\* source_data->'data' IS NOT NULL AND jsonb_typeof(source_data->'data') = t
DataIs(s, t) == s.source_data.type = t

\* PARTITION BY of each deduplicated CTE
PartitionKey(entity, c) ==
    CASE entity = "contacts"       -> <<c.tenant_id, c.contact_id>>
      [] entity = "toques_daily"   -> <<c.tenant_id, c.date, c.canal, c.proyecto_cuenta>>
      [] entity = "toques_heatmap" -> <<c.tenant_id>>
      [] entity = "campaigns"      -> <<c.tenant_id, c.campana_id>>

\* Variant: every deduplicated CTE ordered by loaded_at ASC
SortsBefore_Ascending(entity, a, b) == a.loaded_at < b.loaded_at

\* ORDER BY of each deduplicated CTE: a sorts strictly before b.
\*   contacts:        last_contact DESC NULLS LAST, loaded_at DESC
\*   every other one: loaded_at DESC
SortsBefore(entity, a, b) ==
    IF entity = "contacts"
    THEN \/ a.last_contact # NullInt /\ b.last_contact = NullInt
         \/ a.last_contact # NullInt /\ b.last_contact # NullInt /\ a.last_contact > b.last_contact
         \/ a.last_contact = b.last_contact /\ a.loaded_at > b.loaded_at
    ELSE a.loaded_at > b.loaded_at

\* The rows that can get row_number() = 1 in a partition: those no other row
\* sorts strictly before.  Rows that compare equal are peers, and SQL leaves
\* their order open.
FirstRows(entity, part) == { c \in part : \A d \in part : ~SortsBefore(entity, d, c) }

\* WHERE _rn = 1: one row per partition, for every way the peers can be ordered.
Deduplicated(entity, flat) ==
    LET keys == { PartitionKey(entity, c) : c \in flat }
        firsts(k) == FirstRows(entity, { c \in flat : PartitionKey(entity, c) = k })
    IN  { { f[k] : k \in keys }
          : f \in { g \in [keys -> flat] : \A k \in keys : g[k] \in firsts(k) } }

\* endpoint LIKE '%/<name>%': an endpoint is its sequence of path segments,
\* and the pattern holds when a segment is <name>.
EndpointLike(endpoint, name) == \E k \in DOMAIN endpoint : endpoint[k] = name

\* FROM raw_rows r, jsonb_array_elements(r.source_data->'data') AS elem:
\* one row per element of each snapshot of tbl whose index is in rows
JsonbArrayElements(tbl, rows) ==
    UNION { { [r |-> tbl[i], elem |-> tbl[i].source_data.elems[j], src |-> <<i, j>>]
              : j \in DOMAIN tbl[i].source_data.elems }
            : i \in rows }

\* ------------------------------------------------------------------------
\* Transform: contacts
\* ------------------------------------------------------------------------
\* CONTACTS_SQL, raw_rows
ContactsRawRows(rw) ==
    { i \in DOMAIN rw.raw_contacts_api : DataIs(rw.raw_contacts_api[i], "array") }

\* CONTACTS_SQL, flattened: one row per array element with a contactId
ContactsFlattened(rw) ==
    { [tenant_id     |-> Coalesce(x.r.tenant_id, TENANT_ID),
       contact_id    |-> x.elem.contactId,
       contact_name  |-> x.elem.profileName,
       first_contact |-> x.elem.createdAt,
       last_contact  |-> x.elem.updatedAt,
       loaded_at     |-> x.r.loaded_at,
       src           |-> x.src]
      : x \in { y \in JsonbArrayElements(rw.raw_contacts_api, ContactsRawRows(rw)) :
                  y.elem.contactId # NULL } }

ContactsRow(c) ==
    [tenant_id |-> c.tenant_id, contact_id |-> c.contact_id, contact_name |-> c.contact_name,
     first_contact |-> c.first_contact, last_contact |-> c.last_contact]

\* CONTACTS_SQL: the result sets the query can return
CONTACTS_SQL(rw) ==
    { { ContactsRow(c) : c \in sel }
      : sel \in Deduplicated("contacts", ContactsFlattened(rw)) }

\* LEAST / GREATEST ignore NULL arguments
Least(a, b) == IF a = NullInt THEN b ELSE IF b = NullInt THEN a ELSE Min(a, b)
Greatest(a, b) == IF a = NullInt THEN b ELSE IF b = NullInt THEN a ELSE Max(a, b)

\* Variant: the INSERT without its ON CONFLICT clause, on a table without the
\* unique constraint
CONTACTS_UPSERT_InsertOnly(tbl, r) ==
    tbl \cup { [tenant_id |-> r.tenant_id, contact_id |-> r.contact_id,
                contact_name |-> r.contact_name, total_messages |-> 0,
                first_contact |-> r.first_contact, last_contact |-> r.last_contact,
                total_conversations |-> 0] }

\* Variant: first_contact = EXCLUDED.first_contact, last_contact =
\* EXCLUDED.last_contact
CONTACTS_UPSERT_Overwrite(tbl, r) ==
    LET hit == { t \in tbl : t.tenant_id = r.tenant_id /\ t.contact_id = r.contact_id }
    IN  (tbl \ hit) \cup
        { [tenant_id |-> r.tenant_id, contact_id |-> r.contact_id,
           contact_name |-> r.contact_name, total_messages |-> 0,
           first_contact |-> r.first_contact, last_contact |-> r.last_contact,
           total_conversations |-> 0] }

CONTACTS_UPSERT(tbl, r) ==
    LET hit == { t \in tbl : t.tenant_id = r.tenant_id /\ t.contact_id = r.contact_id }
    IN  IF hit = {}
        THEN tbl \cup { [tenant_id |-> r.tenant_id, contact_id |-> r.contact_id,
                         contact_name |-> r.contact_name, total_messages |-> 0,
                         first_contact |-> r.first_contact, last_contact |-> r.last_contact,
                         total_conversations |-> 0] }
        ELSE (tbl \ hit) \cup
             { [t EXCEPT !.contact_name  = r.contact_name,
                         !.first_contact = Least(t.first_contact, r.first_contact),
                         !.last_contact  = Greatest(t.last_contact, r.last_contact)] : t \in hit }

\* ------------------------------------------------------------------------
\* Derived ratios
\* ------------------------------------------------------------------------
\* num / den rounded to the nearest integer, halves to even
RoundHalfEven(num, den) ==
    LET q == num \div den
        r == num % den
    IN  IF 2 * r < den THEN q
        ELSE IF 2 * r > den THEN q + 1
        ELSE IF q % 2 = 0 THEN q ELSE q + 1

\* round(n / d * 100, 2) if d > 0 else 0, in hundredths
\* Variant: the ratio left undefined (NULL) over a zero denominator
Ratio_Unguarded(n, d) == IF d = 0 THEN NullInt ELSE RoundHalfEven(n * 10000, d)

Ratio(n, d) == IF d > 0 THEN RoundHalfEven(n * 10000, d) ELSE 0

\* ------------------------------------------------------------------------
\* Transform: toques_daily
\* ------------------------------------------------------------------------
\* TOQUES_DAILY_SQL, raw_rows
ToquesDailyRawRows(rw) ==
    { i \in DOMAIN rw.raw_push_stats :
        /\ EndpointLike(rw.raw_push_stats[i].endpoint, "dateStats")
        /\ DataIs(rw.raw_push_stats[i], "array") }

\* TOQUES_DAILY_SQL, flattened
ToquesDailyFlattened(rw) ==
    { [tenant_id       |-> Coalesce(x.r.tenant_id, TENANT_ID),
       proyecto_cuenta |-> Coalesce(x.r.application_id, APP_ID),
       canal           |-> x.elem.platformGroup,
       date            |-> x.elem.statsDate,
       enviados        |-> CoalesceInt(x.elem.numDevicesSent),
       entregados      |-> CoalesceInt(x.elem.numDevicesSuccess),
       abiertos        |-> CoalesceInt(x.elem.numDevicesReceived),
       clicks          |-> CoalesceInt(x.elem.numDevicesClicked),
       loaded_at       |-> x.r.loaded_at,
       src             |-> x.src]
      : x \in { y \in JsonbArrayElements(rw.raw_push_stats, ToquesDailyRawRows(rw)) :
                  y.elem.platformGroup # NULL /\ y.elem.statsDate # NullInt } }

ToquesDailyRow(c) ==
    [tenant_id |-> c.tenant_id, date |-> c.date, canal |-> c.canal,
     proyecto_cuenta |-> c.proyecto_cuenta, enviados |-> c.enviados,
     entregados |-> c.entregados, abiertos |-> c.abiertos, clicks |-> c.clicks]

TOQUES_DAILY_SQL(rw) ==
    { { ToquesDailyRow(c) : c \in sel }
      : sel \in Deduplicated("toques_daily", ToquesDailyFlattened(rw)) }

\* the parameters transform_toques_daily binds for one fetched row
ToquesDailyParams(r) ==
    [tenant_id |-> r.tenant_id, date |-> r.date, canal |-> r.canal,
     proyecto_cuenta |-> r.proyecto_cuenta,
     enviados |-> r.enviados, entregados |-> r.entregados,
     clicks |-> r.clicks, abiertos |-> r.abiertos,
     ctr          |-> Ratio(r.clicks, r.enviados),
     tasa_entrega |-> Ratio(r.entregados, r.enviados),
     open_rate    |-> Ratio(r.abiertos, r.entregados)]

\* Variant: counters incremented on conflict (enviados = toques_daily.enviados +
\* EXCLUDED.enviados, ...)
TOQUES_DAILY_UPSERT_Accumulate(tbl, p) ==
    LET hit == { t \in tbl : /\ t.tenant_id = p.tenant_id /\ t.date = p.date
                             /\ t.canal = p.canal /\ t.proyecto_cuenta = p.proyecto_cuenta }
    IN  IF hit = {}
        THEN tbl \cup { [tenant_id |-> p.tenant_id, date |-> p.date, canal |-> p.canal,
                         proyecto_cuenta |-> p.proyecto_cuenta,
                         enviados |-> p.enviados, entregados |-> p.entregados,
                         clicks |-> p.clicks, chunks |-> 0, usuarios_unicos |-> 0,
                         abiertos |-> p.abiertos, rebotes |-> 0, bloqueados |-> 0,
                         spam |-> 0, desuscritos |-> 0, conversiones |-> 0,
                         ctr |-> p.ctr, tasa_entrega |-> p.tasa_entrega,
                         open_rate |-> p.open_rate, conversion_rate |-> 0] }
        ELSE (tbl \ hit) \cup
             { [t EXCEPT !.enviados = t.enviados + p.enviados,
                         !.entregados = t.entregados + p.entregados,
                         !.clicks = t.clicks + p.clicks,
                         !.abiertos = t.abiertos + p.abiertos,
                         !.ctr = p.ctr, !.tasa_entrega = p.tasa_entrega,
                         !.open_rate = p.open_rate] : t \in hit }

TOQUES_DAILY_UPSERT(tbl, p) ==
    LET hit == { t \in tbl : /\ t.tenant_id = p.tenant_id /\ t.date = p.date
                             /\ t.canal = p.canal /\ t.proyecto_cuenta = p.proyecto_cuenta }
    IN  IF hit = {}
        THEN tbl \cup { [tenant_id |-> p.tenant_id, date |-> p.date, canal |-> p.canal,
                         proyecto_cuenta |-> p.proyecto_cuenta,
                         enviados |-> p.enviados, entregados |-> p.entregados,
                         clicks |-> p.clicks, chunks |-> 0, usuarios_unicos |-> 0,
                         abiertos |-> p.abiertos, rebotes |-> 0, bloqueados |-> 0,
                         spam |-> 0, desuscritos |-> 0, conversiones |-> 0,
                         ctr |-> p.ctr, tasa_entrega |-> p.tasa_entrega,
                         open_rate |-> p.open_rate, conversion_rate |-> 0] }
        ELSE (tbl \ hit) \cup
             { [t EXCEPT !.enviados = p.enviados, !.entregados = p.entregados,
                         !.clicks = p.clicks, !.abiertos = p.abiertos,
                         !.ctr = p.ctr, !.tasa_entrega = p.tasa_entrega,
                         !.open_rate = p.open_rate] : t \in hit }

\* ------------------------------------------------------------------------
\* Transform: toques_heatmap
\* ------------------------------------------------------------------------
Digits == <<"0", "1", "2", "3", "4", "5", "6", "7", "8", "9">>

\* hour_key::smallint of a key written as a sequence of decimal digits
RECURSIVE ToSmallint(_)
ToSmallint(key) ==
    IF key = <<>> THEN 0
    ELSE 10 * ToSmallint(SubSeq(key, 1, Len(key) - 1))
         + (CHOOSE d \in 0..9 : Digits[d + 1] = key[Len(key)])

\* round(v * 100, 2) of a numeric v given in units of 0.00001, in hundredths:
\* numeric rounds halves away from zero
RoundCtr(v) == (v + 5) \div 10

DiaOrden(weekday_key) ==
    CASE weekday_key = "monday"    -> 1
      [] weekday_key = "tuesday"   -> 2
      [] weekday_key = "wednesday" -> 3
      [] weekday_key = "thursday"  -> 4
      [] weekday_key = "friday"    -> 5
      [] weekday_key = "saturday"  -> 6
      [] weekday_key = "sunday"    -> 7
      [] OTHER                     -> 0

\* HEATMAP_SQL, raw_rows
HeatmapRawRows(rw) ==
    { [tenant_id   |-> Coalesce(rw.raw_push_stats[i].tenant_id, TENANT_ID),
       source_data |-> rw.raw_push_stats[i].source_data,
       loaded_at   |-> rw.raw_push_stats[i].loaded_at,
       src         |-> i]
      : i \in { n \in DOMAIN rw.raw_push_stats :
                  /\ EndpointLike(rw.raw_push_stats[n].endpoint, "pushHeatmap")
                  /\ DataIs(rw.raw_push_stats[n], "object") } }

\* HEATMAP_SQL, weekday_entries of one latest snapshot: jsonb_each of
\* data->'weekday-hour' (no rows when the key is absent), keeping the values
\* with jsonb_typeof(weekday_val) = 'object'
WeekdayEntries(l) ==
    IF l.source_data.weekday_hour.type # "object" THEN {}
    ELSE { [tenant_id |-> l.tenant_id, weekday_key |-> k,
            weekday_val |-> l.source_data.weekday_hour.each[k]]
           : k \in { d \in DOMAIN l.source_data.weekday_hour.each :
                       l.source_data.weekday_hour.each[d].type = "object" } }

\* HEATMAP_SQL, flattened: jsonb_each of every weekday object
HeatmapFlattened(w) ==
    { [tenant_id  |-> w.tenant_id,
       canal      |-> "push",
       dia_semana |-> w.weekday_key,
       hora       |-> ToSmallint(h),
       ctr        |-> RoundCtr(w.weekday_val.each[h]),
       dia_orden  |-> DiaOrden(w.weekday_key),
       src        |-> h]
      : h \in DOMAIN w.weekday_val.each }

HEATMAP_SQL(rw) ==
    { UNION { UNION { HeatmapFlattened(w) : w \in WeekdayEntries(l) } : l \in latest }
      : latest \in Deduplicated("toques_heatmap", HeatmapRawRows(rw)) }

HEATMAP_UPSERT(tbl, p) ==
    LET hit == { t \in tbl : /\ t.tenant_id = p.tenant_id /\ t.canal = p.canal
                             /\ t.dia_semana = p.dia_semana /\ t.hora = p.hora }
    IN  IF hit = {}
        THEN tbl \cup { [tenant_id |-> p.tenant_id, canal |-> p.canal,
                         dia_semana |-> p.dia_semana, hora |-> p.hora,
                         enviados |-> 0, clicks |-> 0, abiertos |-> 0, conversiones |-> 0,
                         ctr |-> p.ctr, dia_orden |-> p.dia_orden] }
        ELSE (tbl \ hit) \cup
             { [t EXCEPT !.ctr = p.ctr, !.dia_orden = p.dia_orden] : t \in hit }

\* ------------------------------------------------------------------------
\* Transform: campaigns
\* ------------------------------------------------------------------------
\* CAMPAIGNS_SQL, raw_rows: every snapshot of raw_campaigns_api with an array
CampaignsRawRows(rw) ==
    { i \in DOMAIN rw.raw_campaigns_api : DataIs(rw.raw_campaigns_api[i], "array") }

\* coalesce(a, b, c) over text
Coalesce3(a, b, c) == Coalesce(a, Coalesce(b, c))

\* CAMPAIGNS_SQL, flattened
CampaignsFlattened(rw) ==
    { [tenant_id          |-> Coalesce(x.r.tenant_id, TENANT_ID),
       campana_id         |-> Coalesce(x.elem.id, x.elem.campaignId),
       campana_nombre     |-> Coalesce3(x.elem.name, x.elem.title, "Sin nombre"),
       canal              |-> Coalesce3(x.elem.channel, x.elem.type, "push"),
       proyecto_cuenta    |-> Coalesce(x.elem.applicationId, APP_ID),
       tipo_campana       |-> x.elem.status,
       total_enviados     |-> CoalesceInt(x.elem.sent),
       total_entregados   |-> CoalesceInt(x.elem.delivered),
       total_clicks       |-> CoalesceInt(x.elem.clicked),
       fecha_inicio       |-> x.elem.startDate,
       fecha_fin          |-> x.elem.endDate,
       total_abiertos     |-> CoalesceInt(x.elem.opened),
       total_rebotes      |-> CoalesceInt(x.elem.bounced),
       total_bloqueados   |-> CoalesceInt(x.elem.blocked),
       total_spam         |-> CoalesceInt(x.elem.spam),
       total_desuscritos  |-> CoalesceInt(x.elem.unsubscribed),
       total_conversiones |-> CoalesceInt(x.elem.converted),
       loaded_at          |-> x.r.loaded_at,
       src                |-> x.src]
      : x \in JsonbArrayElements(rw.raw_campaigns_api, CampaignsRawRows(rw)) }

CampaignsRow(c) ==
    [tenant_id |-> c.tenant_id, campana_id |-> c.campana_id,
     campana_nombre |-> c.campana_nombre, canal |-> c.canal,
     proyecto_cuenta |-> c.proyecto_cuenta, tipo_campana |-> c.tipo_campana,
     total_enviados |-> c.total_enviados, total_entregados |-> c.total_entregados,
     total_clicks |-> c.total_clicks, fecha_inicio |-> c.fecha_inicio,
     fecha_fin |-> c.fecha_fin, total_abiertos |-> c.total_abiertos,
     total_rebotes |-> c.total_rebotes, total_bloqueados |-> c.total_bloqueados,
     total_spam |-> c.total_spam, total_desuscritos |-> c.total_desuscritos,
     total_conversiones |-> c.total_conversiones]

\* Variant: deduplicated lacks WHERE campana_id IS NOT NULL
CAMPAIGNS_SQL_KeepsKeyless(rw) ==
    { { CampaignsRow(c) : c \in sel }
      : sel \in Deduplicated("campaigns", CampaignsFlattened(rw)) }

\* CAMPAIGNS_SQL: deduplicated over the rows WHERE campana_id IS NOT NULL
CAMPAIGNS_SQL(rw) ==
    { { CampaignsRow(c) : c \in sel }
      : sel \in Deduplicated("campaigns",
                             { c \in CampaignsFlattened(rw) : c.campana_id # NULL }) }

\* the parameters transform_campaigns binds for one fetched row
CampaignsParams(r) ==
    [tenant_id |-> r.tenant_id, campana_id |-> r.campana_id,
     campana_nombre |-> r.campana_nombre, canal |-> r.canal,
     proyecto_cuenta |-> r.proyecto_cuenta, tipo_campana |-> r.tipo_campana,
     total_enviados |-> r.total_enviados, total_entregados |-> r.total_entregados,
     total_clicks |-> r.total_clicks, total_chunks |-> 0,
     fecha_inicio |-> r.fecha_inicio, fecha_fin |-> r.fecha_fin,
     total_abiertos |-> r.total_abiertos, total_rebotes |-> r.total_rebotes,
     total_bloqueados |-> r.total_bloqueados, total_spam |-> r.total_spam,
     total_desuscritos |-> r.total_desuscritos,
     total_conversiones |-> r.total_conversiones,
     ctr             |-> Ratio(r.total_clicks, r.total_enviados),
     tasa_entrega    |-> Ratio(r.total_entregados, r.total_enviados),
     open_rate       |-> Ratio(r.total_abiertos, r.total_entregados),
     conversion_rate |-> Ratio(r.total_conversiones, r.total_clicks)]

\* ON CONFLICT (tenant_id, campana_id) DO UPDATE SET every column but
\* total_chunks, which the INSERT sets to 0
CAMPAIGNS_UPSERT(tbl, p) ==
    LET hit == { t \in tbl : t.tenant_id = p.tenant_id /\ t.campana_id = p.campana_id }
    IN  IF hit = {}
        THEN tbl \cup {p}
        ELSE (tbl \ hit) \cup { [p EXCEPT !.total_chunks = t.total_chunks] : t \in hit }

\* ------------------------------------------------------------------------
\* Transform: daily_stats
\* ------------------------------------------------------------------------
RECURSIVE SumEnviados(_)
SumEnviados(rows) ==
    IF rows = {} THEN 0
    ELSE LET t == CHOOSE x \in rows : TRUE
         IN  t.enviados + SumEnviados(rows \ {t})

\* DAILY_STATS_SQL over the toques_daily the connection sees
DAILY_STATS_SQL(conn) ==
    LET mine == { t \in conn.toques_daily : t.tenant_id = TENANT_ID }
    IN  { [tenant_id |-> TENANT_ID, date |-> d,
           total_messages  |-> SumEnviados({ t \in mine : t.date = d }),
           unique_contacts |-> 0, conversations |-> 0, fallback_count |-> 0]
          : d \in { t.date : t \in mine } }

DAILY_STATS_UPSERT(tbl, p) ==
    LET hit == { t \in tbl : t.tenant_id = p.tenant_id /\ t.date = p.date }
    IN  IF hit = {}
        THEN tbl \cup {p}
        ELSE (tbl \ hit) \cup
             { [t EXCEPT !.total_messages = p.total_messages,
                         !.unique_contacts = p.unique_contacts,
                         !.conversations = p.conversations,
                         !.fallback_count = p.fallback_count] : t \in hit }

\* ------------------------------------------------------------------------
\* main()
\* ------------------------------------------------------------------------
\* Variant: daily_stats ahead of toques_daily
TRANSFORMS_DailyStatsFirst ==
    <<"contacts", "daily_stats", "toques_daily", "toques_heatmap", "campaigns">>

TRANSFORMS == <<"contacts", "toques_daily", "toques_heatmap", "campaigns", "daily_stats">>

\* str(exc) of a rejected cast, and of a database error raised by a statement
\* (SQLAlchemy appends the statement and its parameters: longer than ERR_CHARS)
CastError == <<"c", "a", "s", "t">>
DbError == [i \in 1..(ERR_CHARS + 3) |-> IF i <= ERR_CHARS THEN "d" ELSE "b"]

\* The SELECT of a transform raises when a cast in its select list meets a
\* text it cannot convert: (elem->>'createdAt')::timestamptz,
\* (elem->>'updatedAt')::timestamptz, (elem->>'statsDate')::date
QueryRaises(entity, rw) ==
    CASE entity = "contacts" ->
            \E c \in ContactsFlattened(rw) : c.first_contact = BadInt \/ c.last_contact = BadInt
      [] entity = "toques_daily" ->
            \E c \in ToquesDailyFlattened(rw) : c.date = BadInt
      [] OTHER -> FALSE

\* conn.execute(text(<ENTITY>_SQL)).fetchall(): the result sets it can return
Query(entity, rw, conn) ==
    CASE entity = "contacts"       -> CONTACTS_SQL(rw)
      [] entity = "toques_daily"   -> TOQUES_DAILY_SQL(rw)
      [] entity = "toques_heatmap" -> HEATMAP_SQL(rw)
      [] entity = "campaigns"      -> CAMPAIGNS_SQL(rw)
      [] entity = "daily_stats"    -> { DAILY_STATS_SQL(conn) }

\* conn.execute(text(<ENTITY>_UPSERT), {...}) for one fetched row
Upsert(entity, conn, r) ==
    CASE entity = "contacts" ->
            [conn EXCEPT !.contacts = CONTACTS_UPSERT(@, r)]
      [] entity = "toques_daily" ->
            [conn EXCEPT !.toques_daily = TOQUES_DAILY_UPSERT(@, ToquesDailyParams(r))]
      [] entity = "toques_heatmap" ->
            [conn EXCEPT !.toques_heatmap = HEATMAP_UPSERT(@, r)]
      [] entity = "campaigns" ->
            [conn EXCEPT !.campaigns = CAMPAIGNS_UPSERT(@, CampaignsParams(r))]
      [] entity = "daily_stats" ->
            [conn EXCEPT !.daily_stats = DAILY_STATS_UPSERT(@, r)]

\* transform_<entity>(conn) as far as its first k fetched rows
RECURSIVE transform_fn(_, _, _, _)
transform_fn(entity, conn, rows, k) ==
    IF k = 0 THEN conn
    ELSE Upsert(entity, transform_fn(entity, conn, rows, k - 1), rows[k])

\* What the connection of the try block has written when k of its statements
\* have run: the upserts of the fetched rows, then update_sync_state(success)
ConnAfter(entity, committed, rows, k, ts) ==
    IF k <= Len(rows)
    THEN transform_fn(entity, committed, rows, k)
    ELSE update_sync_state(transform_fn(entity, committed, rows, Len(rows)),
                           entity, Len(rows), Success, ts)

\* Variant: a connection in autocommit, nothing is rolled back
EngineBegin_Autocommit(committed, conn, raised) == conn

\* with engine.begin() as conn: commit on exit, roll back when the block raised
EngineBegin(committed, conn, raised) == IF raised THEN committed ELSE conn

\* One iteration of main()'s loop over TRANSFORMS.  raised: the try block
\* raised, after k of its statements ran, with str(exc) = msg; written: the
\* except block's own update_sync_state did not raise.
MainIteration(committed, entity, rows, raised, k, msg, written, ts) ==
    LET conn == ConnAfter(entity, committed, rows,
                          IF raised THEN k ELSE Len(rows) + 1, ts)
        tried == EngineBegin(committed, conn, raised)
    IN  IF ~raised
        THEN [db |-> tried, result |-> Len(rows)]
        ELSE [db |-> EngineBegin(tried,
                                 update_sync_state(tried, entity, 0, ErrorStatus(msg), ts),
                                 ~written),
              result |-> -1]

\* ------------------------------------------------------------------------
\* Raw snapshots the extractors can have landed (the inputs of the model)
\* ------------------------------------------------------------------------
Array(elems) == [type |-> "array", elems |-> elems]
Object(weekday_hour) == [type |-> "object", weekday_hour |-> weekday_hour]
Absent == [type |-> "null"]
Number == [type |-> "number"]
Each(f) == [type |-> "object", each |-> f]

\* elements of /v1/chat/contacts
ContactElem(id, name, created, updated) ==
    [contactId |-> id, profileName |-> name, createdAt |-> created, updatedAt |-> updated]

ContactDocs ==
    { Array(<<ContactElem("573054821614", n, d[1], d[2])>>)
      : n \in {"Gise", "Gisela"}, d \in {<<1, 1>>, <<1, 2>>, <<2, 2>>, <<1, NullInt>>} }
    \cup
    { Array(<<ContactElem("573054821614", "Gise", 1, 1),
              ContactElem("573054821614", "Gisela", 1, 1)>>),
      Array(<<ContactElem(NULL, "Gise", 1, 1),
              ContactElem("573001112233", "Ana", 1, 1),
              ContactElem("573054821614", "Gise", 2, 2)>>),
      Array(<<ContactElem("573054821614", "Gise", BadInt, 1)>>),
      Object(Absent) }

ContactEndpoints == { <<"v1", "chat", "contacts">>, <<"v1", "chat", "agent", "status">> }

\* elements of /v1/application/{id}/dateStats
DateStat(platform, day, sent, success, received, clicked) ==
    [platformGroup |-> platform, statsDate |-> day, numDevicesSent |-> sent,
     numDevicesSuccess |-> success, numDevicesReceived |-> received,
     numDevicesClicked |-> clicked]

DateStatsDocs ==
    { Array(<<DateStat("android", 1, 3, 2, 1, 1)>>),
      Array(<<DateStat("android", 1, 0, 0, 0, 0)>>),
      Array(<<DateStat("android", 1, 4, 3, 2, NullInt)>>),
      Array(<<DateStat("android", 1, 3, 2, 1, 1), DateStat("android", 1, 8, 8, 3, 2)>>),
      Array(<<DateStat(NULL, 1, 3, 2, 1, 1), DateStat("ios", 1, 2, 0, 0, 0),
              DateStat("android", 2, 5, 4, 0, 1)>>),
      Array(<<DateStat("android", BadInt, 3, 2, 1, 1)>>) }

\* data of /v1/application/{id}/pushHeatmap
HeatmapDocs ==
    { Object(Each("monday" :> Each(<<"9">> :> 1250))),
      Object(Each("monday" :> Each((<<"9">> :> 1255) @@ (<<"0", "9">> :> 300)))),
      Object(Each(("sunday" :> Each(<<"1", "0">> :> 40)) @@ ("total" :> Number))),
      Object(Absent) }

PushEndpoints ==
    { <<"v1", "application", APP_ID, "dateStats">>,
      <<"v1", "application", APP_ID, "pushHeatmap">> }

\* elements of /v1/campaign and of /v1/campaign/stats
CampaignElem(id, campaignId, name, title, sent, delivered, clicked, opened, converted) ==
    [id |-> id, campaignId |-> campaignId, name |-> name, title |-> title,
     channel |-> NULL, type |-> NULL, applicationId |-> NULL, status |-> "sent",
     sent |-> sent, delivered |-> delivered, clicked |-> clicked,
     startDate |-> 1, endDate |-> NullInt, opened |-> opened, bounced |-> NullInt,
     blocked |-> NullInt, spam |-> NullInt, unsubscribed |-> NullInt,
     converted |-> converted]

CampaignDocs ==
    { Array(<<CampaignElem("7", NULL, "Promo", NULL, 3, 2, 1, 1, 1)>>),
      Array(<<CampaignElem("7", NULL, "Promo v2", NULL, 8, 8, 0, 3, 0)>>),
      Array(<<CampaignElem("7", NULL, "Promo", NULL, 3, 2, 1, 1, 1),
              CampaignElem("7", NULL, "Promo dup", NULL, 0, 0, 0, 0, 0)>>),
      Array(<<CampaignElem(NULL, NULL, NULL, NULL, 1, 1, 1, 1, 1),
              CampaignElem("8", NULL, NULL, NULL, 2, 2, 2, 2, 2),
              CampaignElem("7", NULL, "Promo", NULL, 3, 3, 0, 0, 1)>>) }

\* data of /v1/campaign/stats: per-campaign statistics
CampaignStatsDocs ==
    { Array(<<CampaignElem(NULL, "7", NULL, "Stats", 4, NullInt, 2, 1, 1)>>) }

\* data of /v1/chat/agent/status: elements without contactId
AgentStatusDocs ==
    { Array(<<ContactElem(NULL, NULL, NullInt, NullInt)>>) }

CampaignEndpoints == { <<"v1", "campaign">>, <<"v1", "campaign", "stats">> }

\* One row of a raw.* table
Snapshot(endpoint, doc, ts) ==
    [tenant_id |-> NULL, application_id |-> NULL, endpoint |-> endpoint,
     loaded_at |-> ts, source_data |-> doc]

\* The snapshots an extractor run can add to each raw table
Landed(ts) ==
    [raw_contacts_api |->
        { Snapshot(<<"v1", "chat", "contacts">>, d, ts) : d \in ContactDocs }
        \cup
        { Snapshot(<<"v1", "chat", "agent", "status">>, d, ts) : d \in AgentStatusDocs },
     raw_push_stats |->
        { Snapshot(<<"v1", "application", APP_ID, "dateStats">>, d, ts) : d \in DateStatsDocs }
        \cup
        { Snapshot(<<"v1", "application", APP_ID, "pushHeatmap">>, d, ts) : d \in HeatmapDocs },
     raw_campaigns_api |->
        { Snapshot(<<"v1", "campaign">>, d, ts) : d \in CampaignDocs }
        \cup
        { Snapshot(<<"v1", "campaign", "stats">>, d, ts) : d \in CampaignStatsDocs }]

\* A few of them, each with several rows to upsert
LandedFew(ts) ==
    [raw_contacts_api |->
        { Snapshot(<<"v1", "chat", "contacts">>, d, ts)
          : d \in { Array(<<ContactElem(NULL, "Gise", 1, 1),
                            ContactElem("573001112233", "Ana", 1, 1),
                            ContactElem("573054821614", "Gise", 2, 2)>>),
                    Array(<<ContactElem("573054821614", "Gisela", 1, 2)>>) } },
     raw_push_stats |->
        { Snapshot(<<"v1", "application", APP_ID, "dateStats">>, d, ts)
          : d \in { Array(<<DateStat(NULL, 1, 3, 2, 1, 1), DateStat("ios", 1, 2, 0, 0, 0),
                            DateStat("android", 1, 5, 4, 0, 1)>>) } }
        \cup
        { Snapshot(<<"v1", "application", APP_ID, "pushHeatmap">>, d, ts)
          : d \in { Object(Each("monday" :> Each((<<"9">> :> 1255) @@ (<<"0", "9">> :> 300)))) } },
     raw_campaigns_api |->
        { Snapshot(<<"v1", "campaign">>, d, ts)
          : d \in { Array(<<CampaignElem(NULL, NULL, NULL, NULL, 1, 1, 1, 1, 1),
                            CampaignElem("8", NULL, NULL, NULL, 2, 2, 2, 2, 2),
                            CampaignElem("7", NULL, "Promo", NULL, 3, 3, 0, 0, 1)>>) } }]

RawTables == {"raw_contacts_api", "raw_push_stats", "raw_campaigns_api"}

SnapCount(rw) ==
    Len(rw.raw_contacts_api) + Len(rw.raw_push_stats) + Len(rw.raw_campaigns_api)

\* Variant: the transform deletes the raw rows it has read
RawAfterTransform_Purge(entity, rw) ==
    CASE entity = "contacts"  -> [rw EXCEPT !.raw_contacts_api = <<>>]
      [] entity = "campaigns" -> [rw EXCEPT !.raw_campaigns_api = <<>>]
      [] OTHER                -> [rw EXCEPT !.raw_push_stats = <<>>]

\* The raw.* tables after an iteration of main()'s loop: every statement of
\* the transforms and of update_sync_state that writes is an INSERT INTO
\* public.* ... ON CONFLICT DO UPDATE; raw.* is only read
RawAfterTransform(entity, rw) == rw

\* The last iteration of main()'s loop: its entity, whether its try block
\* raised, how many of its upserts had executed, str(exc), and whether the
\* except block's update_sync_state went through
NoAttempt ==
    [entity |-> NULL, raised |-> FALSE, executed |-> 0, msg |-> <<>>, written |-> FALSE]

\* Variant: the exception of a transform leaves the loop
NextIdx_Abort(i, result) == IF result < 0 THEN Len(TRANSFORMS) + 1 ELSE i + 1

\* for entity, transform_fn in TRANSFORMS: try ... except Exception: the
\* handler swallows the exception and the loop goes on with the next entity
NextIdx(i, result) == i + 1

\* ------------------------------------------------------------------------
\* Values of the application services and of concurrent runs
\* ------------------------------------------------------------------------
MaxItems == 2
MaxToggles == 3

\* The tenants with rows in the application's tables
Tenants == {TENANT_ID, "demo"}

\* What a caller can pass as tenant_filter: a tenant, None, or ''
TenantArgs == Tenants \cup {NULL, ""}

\* Callers of StorageService.toggle_favorite_*, and started main() processes
Clients == {"c1", "c2"}
Runs == {"r1", "r2"}

EmptyStore == [messages |-> {}, contacts |-> {}, saved_queries |-> {}, dashboards |-> {},
               rls |-> FALSE]
NoAnswer == [op |-> NULL, tenant |-> NULL, rows |-> {}]
NoReturn == [success |-> FALSE, is_favorite |-> FALSE]

\* A client that is not inside toggle_favorite_*; completed: the items of
\* its successful calls so far
NoCall == [pc |-> "idle", tbl |-> NULL, tenant |-> NULL, id |-> 0, is_favorite |-> FALSE,
           ret |-> NoReturn, completed |-> <<>>]

\* A main() that has not been started
NoTxn == [pc |-> "idle", idx |-> 1, rows |-> <<>>, k |-> 0, writes |-> <<>>,
          results |-> <<>>]

EmptyDb ==
    [contacts |-> {}, toques_daily |-> {}, toques_heatmap |-> {}, campaigns |-> {},
     daily_stats |-> {}, sync_state |-> {}]

EmptyRaw == [raw_contacts_api |-> <<>>, raw_push_stats |-> <<>>, raw_campaigns_api |-> <<>>]

Init ==
    /\ raw = EmptyRaw
    /\ db = EmptyDb
    /\ now = 1
    /\ pc = "idle"
    /\ idx = 1
    /\ results = <<>>
    /\ runs = 0
    /\ faults = 0
    /\ last_run = [raw |-> EmptyRaw, db |-> EmptyDb, results |-> <<>>]
    /\ attempt = NoAttempt
    /\ api = [full |-> 0, last |-> 0]
    /\ x_ext = NULL
    /\ x_pc = "idle"
    /\ x_phase = 1
    /\ x_page = 0
    /\ x_offset = 0
    /\ x_total = 0
    /\ x_resp = [kind |-> "none"]
    /\ x_calls = <<>>
    /\ x_raw = <<>>
    /\ x_log = <<>>
    /\ store = EmptyStore
    /\ answer = NoAnswer
    /\ calls = [c \in Clients |-> NoCall]
    /\ txn = [p \in Runs |-> NoTxn]

\* An extractor lands one snapshot: INSERT INTO raw.<table>, loaded_at the
\* time of the insert (later ensures a later timestamp than every earlier row)
Load ==
    /\ pc = "idle"
    /\ SnapCount(raw) < MaxSnap
    /\ \E later \in BOOLEAN, t \in RawTables :
         \E s \in Landed(IF later THEN now + 1 ELSE now)[t] :
            /\ raw' = [raw EXCEPT ![t] = Append(@, s)]
            /\ now' = s.loaded_at
    /\ UNCHANGED <<db, pc, idx, results, runs, faults, last_run, attempt, xvars, svars, txn>>

\* The same, from the few
LoadFew ==
    /\ pc = "idle"
    /\ SnapCount(raw) < MaxSnap
    /\ \E later \in BOOLEAN, t \in RawTables :
         \E s \in LandedFew(IF later THEN now + 1 ELSE now)[t] :
            /\ raw' = [raw EXCEPT ![t] = Append(@, s)]
            /\ now' = s.loaded_at
    /\ UNCHANGED <<db, pc, idx, results, runs, faults, last_run, attempt, xvars, svars, txn>>

\* main() is started: results = {}
MainStart ==
    /\ pc = "idle"
    /\ runs < MaxRuns
    /\ pc' = "running"
    /\ idx' = 1
    /\ results' = <<>>
    /\ now' = now + 1
    /\ UNCHANGED <<raw, db, runs, faults, last_run, attempt, xvars, svars, txn>>

\* One iteration of the loop with a database that answers every statement:
\* the attempt commits, or the SELECT raises on a text it cannot cast.
TransformEntity ==
    /\ pc = "running"
    /\ idx <= Len(TRANSFORMS)
    /\ LET entity == TRANSFORMS[idx]
       IN  IF QueryRaises(entity, raw)
           THEN LET it == MainIteration(db, entity, <<>>, TRUE, 0, CastError, TRUE, now)
                IN  /\ db' = it.db
                    /\ results' = (entity :> it.result) @@ results
                    /\ idx' = NextIdx(idx, it.result)
                    /\ attempt' = [entity |-> entity, raised |-> TRUE, executed |-> 0,
                                   msg |-> CastError, written |-> TRUE]
           ELSE \E fetched \in Query(entity, raw, db) : \E rows \in Perms(fetched) :
                LET it == MainIteration(db, entity, rows, FALSE, 0, <<>>, TRUE, now)
                IN  /\ db' = it.db
                    /\ results' = (entity :> it.result) @@ results
                    /\ idx' = NextIdx(idx, it.result)
                    /\ attempt' = [entity |-> entity, raised |-> FALSE,
                                   executed |-> Len(rows), msg |-> <<>>,
                                   written |-> FALSE]
    /\ raw' = RawAfterTransform(TRANSFORMS[idx], raw)
    /\ UNCHANGED <<now, pc, runs, faults, last_run, xvars, svars, txn>>

\* One iteration of the loop in which the database fails a statement of the
\* try block (an upsert, update_sync_state, or the commit), and then answers
\* or fails the except block's update_sync_state.
TransformFault ==
    /\ pc = "running"
    /\ idx <= Len(TRANSFORMS)
    /\ faults < MaxFaults
    /\ ~QueryRaises(TRANSFORMS[idx], raw)
    /\ LET entity == TRANSFORMS[idx]
       IN  \E fetched \in Query(entity, raw, db) : \E rows \in Perms(fetched) :
           \E k \in 0..(Len(rows) + 1) : \E written \in BOOLEAN :
               LET it == MainIteration(db, entity, rows, TRUE, k, DbError, written, now)
               IN  /\ db' = it.db
                   /\ results' = (entity :> it.result) @@ results
                   /\ idx' = NextIdx(idx, it.result)
                   /\ attempt' = [entity |-> entity, raised |-> TRUE,
                                  executed |-> Min(k, Len(rows)), msg |-> DbError,
                                  written |-> written]
    /\ faults' = faults + 1
    /\ raw' = RawAfterTransform(TRANSFORMS[idx], raw)
    /\ UNCHANGED <<now, pc, runs, last_run, xvars, svars, txn>>

\* main() returns after the last entity
MainReturn ==
    /\ pc = "running"
    /\ idx > Len(TRANSFORMS)
    /\ pc' = "idle"
    /\ runs' = runs + 1
    /\ last_run' = [raw |-> raw, db |-> db, results |-> results]
    /\ UNCHANGED <<raw, db, now, idx, results, faults, attempt, xvars, svars, txn>>

\* ------------------------------------------------------------------------
\* Extractors: _extract_for_app
\* ------------------------------------------------------------------------
MAX_PAGES == 50
EXTRACTION_MAX_RECORDS == 100

\* page_size = min(cfg.EXTRACTION_MAX_RECORDS, 100)
page_size == Min(EXTRACTION_MAX_RECORDS, 100)

Single(path) == [kind |-> "single", path |-> path, cursor |-> "none"]
PageLoop(path, cursor) == [kind |-> "loop", path |-> path, cursor |-> cursor]

\* The endpoints each _extract_for_app goes through, in order
Endpoints(ext) ==
    CASE ext = "push" ->
            << Single(<<"v1", "application", APP_ID, "dateStats">>),
               Single(<<"v1", "application", APP_ID, "pushHeatmap">>),
               Single(<<"v1", "application", APP_ID, "stats", "device">>),
               Single(<<"v1", "application", "stats">>) >>
      [] ext = "contacts" ->
            << PageLoop(<<"v1", "chat", "contacts">>, "page"),
               Single(<<"v1", "chat", "agent", "status">>) >>
      [] ext = "campaigns" ->
            << PageLoop(<<"v1", "campaign">>, "page"),
               Single(<<"v1", "campaign", "stats">>) >>
      [] ext = "chat" ->
            << Single(<<"v1", "chat", "agent", "status">>),
               PageLoop(<<"v1", "chat", "contacts">>, "offset") >>

Extractors == {"push", "contacts", "campaigns", "chat"}

\* Variant: the chat loop sends the page number as its offset
Params_OffsetIsPage(ep, page_num, offset) ==
    CASE ep.cursor = "page"   -> [applicationId |-> APP_ID, limit |-> page_size,
                                  page |-> page_num]
      [] ep.cursor = "offset" -> [applicationId |-> APP_ID, limit |-> page_size,
                                  offset |-> page_num]
      [] OTHER                -> [applicationId |-> APP_ID]

\* params of the request _extract_for_app issues at endpoint ep: the cursor
\* of a page loop; of a single call's params (date window, periodicity) only
\* applicationId is kept
Params(ep, page_num, offset) ==
    CASE ep.cursor = "page"   -> [applicationId |-> APP_ID, limit |-> page_size,
                                  page |-> page_num]
      [] ep.cursor = "offset" -> [applicationId |-> APP_ID, limit |-> page_size,
                                  offset |-> offset]
      [] OTHER                -> [applicationId |-> APP_ID]

\* The page of the remote list a request asks for
PageAsked(ep, params) ==
    IF ep.cursor = "page" THEN params.page ELSE params.offset \div params.limit

\* The remote list: api.full pages of params.limit items, then one of api.last
\* items, then empty pages
Served(ep, params) ==
    LET p == PageAsked(ep, params)
    IN  [page |-> p,
         n |-> IF p < api.full THEN params.limit
               ELSE IF p = api.full THEN api.last ELSE 0]

\* self._store_raw(app_id, endpoint, data): one more row in RAW_TABLE
StoreRaw(tbl, path, data) == Append(tbl, [endpoint |-> path, source_data |-> data])

\* Variant: no break on a short page
LoopBody_NoShortBreak(resp, stored) ==
    IF resp.kind = "raise" THEN [store |-> FALSE, failed |-> TRUE, goon |-> FALSE]
    ELSE IF resp.kind = "none" THEN [store |-> FALSE, failed |-> FALSE, goon |-> FALSE]
    ELSE IF resp.data.n = 0 THEN [store |-> FALSE, failed |-> FALSE, goon |-> FALSE]
    ELSE IF ~stored THEN [store |-> FALSE, failed |-> TRUE, goon |-> FALSE]
    ELSE [store |-> TRUE, failed |-> FALSE, goon |-> TRUE]

\* Variant: only the last page is stored, when the loop ends
LoopBody_StoreAtEnd(resp, stored) ==
    IF resp.kind = "raise" THEN [store |-> FALSE, failed |-> TRUE, goon |-> FALSE]
    ELSE IF resp.kind = "none" THEN [store |-> FALSE, failed |-> FALSE, goon |-> FALSE]
    ELSE IF resp.data.n = 0 THEN [store |-> FALSE, failed |-> FALSE, goon |-> FALSE]
    ELSE IF ~stored THEN [store |-> FALSE, failed |-> TRUE, goon |-> FALSE]
    ELSE [store |-> resp.data.n < page_size, failed |-> FALSE,
          goon |-> ~(resp.data.n < page_size)]

\* Variant: a page without items is stored before the loop ends
LoopBody_StoresEmpty(resp, stored) ==
    IF resp.kind = "raise" THEN [store |-> FALSE, failed |-> TRUE, goon |-> FALSE]
    ELSE IF resp.kind = "none" THEN [store |-> FALSE, failed |-> FALSE, goon |-> FALSE]
    ELSE IF ~stored THEN [store |-> FALSE, failed |-> TRUE, goon |-> FALSE]
    ELSE [store |-> TRUE, failed |-> FALSE, goon |-> ~(resp.data.n < page_size)]

\* Variant: the except block of the page loop goes on with the next page
LoopBody_ContinueOnError(resp, stored) ==
    IF resp.kind = "raise" THEN [store |-> FALSE, failed |-> TRUE, goon |-> TRUE]
    ELSE IF resp.kind = "none" THEN [store |-> FALSE, failed |-> FALSE, goon |-> FALSE]
    ELSE IF resp.data.n = 0 THEN [store |-> FALSE, failed |-> FALSE, goon |-> FALSE]
    ELSE IF ~stored THEN [store |-> FALSE, failed |-> TRUE, goon |-> TRUE]
    ELSE [store |-> TRUE, failed |-> FALSE, goon |-> ~(resp.data.n < page_size)]

\* The body of one iteration of a page loop, from the answer of client.get on:
\* whether it stores the page, reports FAILED, and goes on to the next page.
\* stored: self._store_raw did not raise.
LoopBody(resp, stored) ==
    IF resp.kind = "raise" THEN [store |-> FALSE, failed |-> TRUE, goon |-> FALSE]
    ELSE IF resp.kind = "none" THEN [store |-> FALSE, failed |-> FALSE, goon |-> FALSE]
    ELSE IF resp.data.n = 0 THEN [store |-> FALSE, failed |-> FALSE, goon |-> FALSE]
    ELSE IF ~stored THEN [store |-> FALSE, failed |-> TRUE, goon |-> FALSE]
    ELSE [store |-> TRUE, failed |-> FALSE, goon |-> ~(resp.data.n < page_size)]

\* Variant: while True
RangeHasNext_Forever(page_num) == TRUE

\* for page_num in range(self.MAX_PAGES): there is a next iteration
RangeHasNext(page_num) == page_num + 1 < MAX_PAGES

\* The body of a single call, from the answer of client.get on
SingleBody(resp, stored) ==
    IF resp.kind = "raise" THEN [store |-> FALSE, failed |-> TRUE, goon |-> FALSE]
    ELSE IF resp.kind = "none" THEN [store |-> FALSE, failed |-> FALSE, goon |-> FALSE]
    ELSE IF ~stored THEN [store |-> FALSE, failed |-> TRUE, goon |-> FALSE]
    ELSE [store |-> TRUE, failed |-> FALSE, goon |-> FALSE]

\* Variant: the page loop without its try ... except
Escapes_PageLoop(ext, ep) == ep.kind = "loop"

\* except Exception as exc: print(...): an exception of client.get or of
\* _store_raw leaves _extract_for_app only if no handler encloses the call
Escapes(ext, ep) == FALSE

FullPages == 0..MaxFull \cup {MAX_PAGES - 1, MAX_PAGES}
LastSizes == {0, 23}

\* _extract_for_app(app_id, app_meta) is called
ExtractForApp ==
    /\ x_pc = "idle"
    /\ \E ext \in Extractors :
         /\ x_ext' = ext
         /\ IF \E k \in DOMAIN Endpoints(ext) : Endpoints(ext)[k].kind = "loop"
            THEN \E f \in FullPages, l \in LastSizes : api' = [full |-> f, last |-> l]
            ELSE api' = api
    /\ x_pc' = "call"
    /\ x_phase' = 1
    /\ x_page' = 0
    /\ x_offset' = 0
    /\ x_total' = 0
    /\ UNCHANGED <<x_resp, x_calls, x_raw, x_log, tvars, svars, txn>>

\* self.client.get(path, params=..., application_id=app_id): the request is
\* issued and the client returns a document, returns None, or raises
ClientGet ==
    /\ x_pc = "call"
    /\ LET ep == Endpoints(x_ext)[x_phase]
           params == Params(ep, x_page, x_offset)
       IN  \E kind \in {"doc", "none", "raise"} :
             /\ x_calls' = Append(x_calls, [path |-> ep.path, params |-> params,
                                            answer |-> kind])
             /\ x_resp' = IF kind = "doc"
                          THEN [kind |-> "doc",
                                data |-> IF ep.kind = "loop" THEN Served(ep, params)
                                         ELSE [page |-> 0, n |-> 1]]
                          ELSE [kind |-> kind]
    /\ x_pc' = "answered"
    /\ UNCHANGED <<api, x_ext, x_phase, x_page, x_offset, x_total, x_raw, x_log, tvars, svars, txn>>

\* The rest of the try block and what follows it: store, count, break or go
\* on to the next page, to the next endpoint, or return
HandleAnswer ==
    /\ x_pc = "answered"
    /\ \E stored \in BOOLEAN :
         LET ep == Endpoints(x_ext)[x_phase]
             b == IF ep.kind = "loop" THEN LoopBody(x_resp, stored)
                  ELSE SingleBody(x_resp, stored)
             again == ep.kind = "loop" /\ b.goon /\ RangeHasNext(x_page)
         IN  /\ x_raw' = IF b.store THEN StoreRaw(x_raw, ep.path, x_resp.data) ELSE x_raw
             /\ x_log' = IF b.failed THEN Append(x_log, ep.path) ELSE x_log
             /\ x_total' = IF b.store /\ ep.kind = "loop"
                           THEN x_total + x_resp.data.n ELSE x_total
             /\ x_offset' = IF ep.cursor = "offset" /\ b.goon
                            THEN x_offset + page_size ELSE x_offset
             /\ x_page' = IF again THEN x_page + 1 ELSE x_page
             /\ IF b.failed /\ Escapes(x_ext, ep)
                THEN x_pc' = "raised" /\ x_phase' = x_phase
                ELSE IF again
                THEN x_pc' = "call" /\ x_phase' = x_phase
                ELSE IF x_phase < Len(Endpoints(x_ext))
                THEN x_pc' = "call" /\ x_phase' = x_phase + 1
                ELSE x_pc' = "returned" /\ x_phase' = x_phase
    /\ UNCHANGED <<api, x_ext, x_resp, x_calls, tvars, svars, txn>>

NextExtract == ExtractForApp \/ ClientGet \/ HandleAnswer

SpecExtract == Init /\ [][NextExtract]_vars

\* _extract_for_app runs on: a step that can be taken is taken
SpecExtractFair == Init /\ [][NextExtract]_vars /\ WF_vars(NextExtract)

Next == Load \/ MainStart \/ TransformEntity \/ MainReturn

Spec == Init /\ [][Next]_vars

\* The transform against a database that can fail statements
NextFaults == LoadFew \/ MainStart \/ TransformEntity \/ TransformFault \/ MainReturn

SpecFaults == Init /\ [][NextFaults]_vars

\* ------------------------------------------------------------------------
\* Application services: DataService, StorageService
\* ------------------------------------------------------------------------
\* Rows of messages and of contacts that ingestion can have written
MessagePool ==
    { [message_id |-> 1, tenant_id |-> TENANT_ID, agent_id |-> "a1"],
      [message_id |-> 2, tenant_id |-> TENANT_ID, agent_id |-> NULL],
      [message_id |-> 3, tenant_id |-> "demo", agent_id |-> "a1"] }

ContactPool ==
    { [contact_id |-> "573054821614", tenant_id |-> TENANT_ID],
      [contact_id |-> "573054821614", tenant_id |-> "demo"] }

\* A row is written to messages or to contacts
Ingest ==
    /\ \/ \E m \in MessagePool \ store.messages :
            store' = [store EXCEPT !.messages = @ \cup {m}]
       \/ \E c \in ContactPool \ store.contacts :
            store' = [store EXCEPT !.contacts = @ \cup {c}]
    /\ UNCHANGED <<answer, calls, txn, tvars, xvars>>

\* create_rls_policies.main(): ENABLE and FORCE ROW LEVEL SECURITY with the
\* policy tenant_id = current_setting('app.current_tenant', true)
CreateRlsPolicies ==
    /\ ~store.rls
    /\ store' = [store EXCEPT !.rls = TRUE]
    /\ UNCHANGED <<answer, calls, txn, tvars, xvars>>

\* The rows of a table a statement of the services can see: the services
\* open their connections with engine.connect() / engine.begin() and never
\* set app.current_tenant, so where the policy applies to their role
\* current_setting(..., true) is NULL and the policy passes no row
Visible(tbl) == IF store.rls THEN {} ELSE store[tbl]

\* DataService._tenant_filter(table, tenant_id): if tenant_id: ... return True
_tenant_filter(row, tenant_id) ==
    IF tenant_id # NULL /\ tenant_id # "" THEN row.tenant_id = tenant_id ELSE TRUE

\* The queries of DataService by their WHERE clause.  get_summary_stats
\* stands for the queries over messages whose WHERE is the tenant filter
\* alone (get_recent_messages, get_messages_by_*, get_messages_over_time,
\* get_top_contacts, get_fallback_rate, get_customers_with_high_messages,
\* get_messages_dataframe); get_agent_performance for those that add an
\* IS NOT NULL condition (get_intent_distribution).
TenantOps == {"get_summary_stats", "get_agent_performance", "get_contacts_dataframe"}
GlobalOps == {"get_entities", "get_date_range"}

TableOf(op) == IF op = "get_contacts_dataframe" THEN "contacts" ELSE "messages"

Where(op, row, tenant_filter) ==
    CASE op = "get_agent_performance" ->
            _tenant_filter(row, tenant_filter) /\ row.agent_id # NULL
      [] op \in GlobalOps -> TRUE
      [] OTHER -> _tenant_filter(row, tenant_filter)

\* A DataService query: the rows its statement selects
DataQuery ==
    /\ \E op \in TenantOps \cup GlobalOps :
         \E tenant_filter \in (IF op \in GlobalOps THEN {NULL} ELSE TenantArgs) :
            answer' = [op |-> op, tenant |-> tenant_filter,
                       rows |-> { r \in Visible(TableOf(op)) : Where(op, r, tenant_filter) }]
    /\ UNCHANGED <<store, calls, txn, tvars, xvars>>

\* The table of each kind of saved item
ItemTables == {"saved_queries", "dashboards"}

\* StorageService(tenant_id).save_query / save_dashboard: id from the
\* table's sequence, is_favorite False
SaveItem ==
    /\ Cardinality(store.saved_queries) + Cardinality(store.dashboards) < MaxItems
    /\ \E tbl \in ItemTables, tenant \in Tenants :
         store' = [store EXCEPT ![tbl] = @ \cup
                      { [id |-> Cardinality(@) + 1, tenant_id |-> tenant,
                         is_favorite |-> FALSE, is_archived |-> FALSE] }]
    /\ UNCHANGED <<answer, calls, txn, tvars, xvars>>

\* StorageService(tenant_id).list_queries / list_dashboards (search, tags,
\* limit and offset only narrow the result) and get_query / get_dashboard
StorageRead ==
    /\ \E tenant \in Tenants, tbl \in ItemTables :
         \/ \E favorites_only \in BOOLEAN :
              answer' = [op |-> "list", tenant |-> tenant,
                         rows |-> { r \in Visible(tbl) :
                                      /\ r.tenant_id = tenant
                                      /\ ~r.is_archived
                                      /\ favorites_only => r.is_favorite }]
         \/ \E id \in 1..MaxItems :
              answer' = [op |-> "get", tenant |-> tenant,
                         rows |-> { r \in Visible(tbl) :
                                      r.id = id /\ r.tenant_id = tenant }]
    /\ UNCHANGED <<store, calls, txn, tvars, xvars>>

NextQueries == Ingest \/ SaveItem \/ CreateRlsPolicies \/ DataQuery \/ StorageRead

SpecQueries == Init /\ [][NextQueries]_vars

\* Successful toggle_favorite_* calls completed so far, of all clients
RECURSIVE CompletedBy(_)
CompletedBy(cs) ==
    IF cs = {} THEN 0
    ELSE LET c == CHOOSE x \in cs : TRUE
         IN  Len(calls[c].completed) + CompletedBy(cs \ {c})

\* toggle_favorite_query / toggle_favorite_dashboard, first block: with
\* engine.connect(): select is_favorite where id and tenant; not found
\* returns {"success": False}
ToggleRead ==
    /\ CompletedBy(Clients) < MaxToggles
    /\ \E c \in Clients :
         /\ calls[c].pc = "idle"
         /\ \E tbl \in ItemTables, tenant \in Tenants, id \in 1..MaxItems :
              LET found == { r \in Visible(tbl) : r.id = id /\ r.tenant_id = tenant }
              IN  IF found = {}
                  THEN calls' = [calls EXCEPT ![c].ret = NoReturn]
                  ELSE LET row == CHOOSE r \in found : TRUE
                       IN  calls' = [calls EXCEPT ![c] =
                                [@ EXCEPT !.pc = "read", !.tbl = tbl, !.tenant = tenant,
                                          !.id = id, !.is_favorite = row.is_favorite]]
    /\ UNCHANGED <<store, answer, txn, tvars, xvars>>

\* Second block: with engine.begin(): update ... values(is_favorite=not
\* row.is_favorite) where id and tenant; return {"success": True,
\* "is_favorite": not row.is_favorite}
ToggleWrite ==
    /\ \E c \in Clients :
         /\ calls[c].pc = "read"
         /\ LET call == calls[c]
                hit == { r \in Visible(call.tbl) :
                           r.id = call.id /\ r.tenant_id = call.tenant }
            IN  /\ store' = [store EXCEPT ![call.tbl] =
                               (@ \ hit) \cup
                               { [r EXCEPT !.is_favorite = ~call.is_favorite] : r \in hit }]
                /\ calls' = [calls EXCEPT ![c] =
                               [@ EXCEPT !.pc = "idle",
                                         !.ret = [success |-> TRUE,
                                                  is_favorite |-> ~call.is_favorite],
                                         !.completed = Append(@, <<call.tbl, call.id>>)]]
    /\ UNCHANGED <<answer, txn, tvars, xvars>>

NextToggles == SaveItem \/ CreateRlsPolicies \/ ToggleRead \/ ToggleWrite

SpecToggles == Init /\ [][NextToggles]_vars

\* ------------------------------------------------------------------------
\* Two main() processes started concurrently (PostgreSQL, READ COMMITTED)
\* ------------------------------------------------------------------------
\* The natural key of a row of an entity's normalized table
NaturalKey(entity, r) ==
    CASE entity = "contacts"       -> <<r.tenant_id, r.contact_id>>
      [] entity = "toques_daily"   -> <<r.tenant_id, r.date, r.canal, r.proyecto_cuenta>>
      [] entity = "toques_heatmap" -> <<r.tenant_id, r.canal, r.dia_semana, r.hora>>
      [] entity = "campaigns"      -> <<r.tenant_id, r.campana_id>>
      [] entity = "daily_stats"    -> <<r.tenant_id, r.date>>

\* The key a row of a public.* table conflicts on
TableKey(tbl, r) ==
    IF tbl = "sync_state" THEN <<r.tenant_id, r.entity>> ELSE NaturalKey(tbl, r)

\* What a statement of a transaction sees: the committed rows, and in their
\* place the rows the transaction has written itself
Overlay(committed, writes) ==
    [tbl \in DOMAIN committed |->
        { r \in committed[tbl] :
            \A w \in writes[tbl] : TableKey(tbl, w) # TableKey(tbl, r) }
        \cup writes[tbl]]

\* writes with the row of key that the statement left in the table after
Written(writes, tbl, key, after) ==
    [writes EXCEPT ![tbl] =
        { w \in @ : TableKey(tbl, w) # key }
        \cup { r \in after[tbl] : TableKey(tbl, r) = key }]

\* The row lock the next statement of run p takes
Wants(p) ==
    LET t == txn[p]
        entity == TRANSFORMS[t.idx]
    IN  IF t.pc = "upsert" /\ t.k < Len(t.rows)
        THEN <<entity, NaturalKey(entity, t.rows[t.k + 1])>>
        ELSE <<"sync_state", <<TENANT_ID, entity>>>>

\* The row locks run p holds: the rows its open transaction has written
Holds(p) ==
    UNION { { <<tbl, TableKey(tbl, w)>> : w \in txn[p].writes[tbl] }
            : tbl \in DOMAIN txn[p].writes }

\* The next statement of run p waits for a row lock of another transaction
Blocked(p) ==
    /\ txn[p].pc \in {"upsert", "except"}
    /\ \E q \in Runs \ {p} : Wants(p) \in Holds(q)

\* main() is started in process p: results = {}
CStart ==
    /\ \E p \in Runs :
         /\ txn[p].pc = "idle"
         /\ txn' = [txn EXCEPT ![p] = [NoTxn EXCEPT !.pc = "select", !.writes = EmptyDb]]
    /\ now' = now + 1
    /\ UNCHANGED <<raw, db, pc, idx, results, runs, faults, last_run, attempt, xvars, svars>>

\* with engine.begin() as conn: rows = conn.execute(text(<ENTITY>_SQL)).fetchall()
CSelect ==
    /\ \E p \in Runs :
         /\ txn[p].pc = "select"
         /\ LET entity == TRANSFORMS[txn[p].idx]
            IN  IF QueryRaises(entity, raw)
                THEN txn' = [txn EXCEPT ![p].pc = "except"]
                ELSE \E fetched \in Query(entity, raw, db) : \E rows \in Perms(fetched) :
                        txn' = [txn EXCEPT ![p] =
                                  [@ EXCEPT !.pc = "upsert", !.rows = rows, !.k = 0,
                                            !.writes = EmptyDb]]
    /\ UNCHANGED <<tvars, xvars, svars>>

\* The next statement of the try block: the upsert of the next fetched row,
\* and after the last one update_sync_state(conn, entity, count, "success")
CStatement ==
    /\ \E p \in Runs :
         /\ txn[p].pc = "upsert"
         /\ ~Blocked(p)
         /\ LET t == txn[p]
                entity == TRANSFORMS[t.idx]
                view == Overlay(db, t.writes)
            IN  IF t.k < Len(t.rows)
                THEN txn' = [txn EXCEPT ![p] =
                               [@ EXCEPT !.k = t.k + 1,
                                         !.writes = Written(t.writes, entity,
                                                            NaturalKey(entity, t.rows[t.k + 1]),
                                                            Upsert(entity, view, t.rows[t.k + 1]))]]
                ELSE txn' = [txn EXCEPT ![p] =
                               [@ EXCEPT !.pc = "commit",
                                         !.writes = Written(t.writes, "sync_state",
                                                            <<TENANT_ID, entity>>,
                                                            update_sync_state(view, entity,
                                                                Len(t.rows), Success, now))]]
    /\ UNCHANGED <<tvars, xvars, svars>>

\* The position of a run after the iteration of its loop at i
AfterIteration(i) == IF i < Len(TRANSFORMS) THEN "select" ELSE "done"

\* The with block ends: COMMIT; results[entity] = count
CCommit ==
    /\ \E p \in Runs :
         /\ txn[p].pc = "commit"
         /\ db' = Overlay(db, txn[p].writes)
         /\ txn' = [txn EXCEPT ![p] =
                      [@ EXCEPT !.pc = AfterIteration(txn[p].idx),
                                !.idx = Min(txn[p].idx + 1, Len(TRANSFORMS)),
                                !.results = (TRANSFORMS[txn[p].idx] :> Len(txn[p].rows)) @@ @,
                                !.rows = <<>>, !.k = 0, !.writes = EmptyDb]]
    /\ UNCHANGED <<raw, now, pc, idx, results, runs, faults, last_run, attempt, xvars, svars>>

\* Two transactions wait for each other's row lock: PostgreSQL aborts the
\* statement of one with a deadlock error, its with block rolls back and
\* main() goes to except: results[entity] = -1
CDeadlock ==
    /\ \E p \in Runs : \E q \in Runs \ {p} :
         /\ txn[p].pc = "upsert"
         /\ Wants(p) \in Holds(q)
         /\ txn[q].pc = "upsert"
         /\ Wants(q) \in Holds(p)
         /\ txn' = [txn EXCEPT ![p] =
                      [@ EXCEPT !.pc = "except", !.rows = <<>>, !.k = 0,
                                !.writes = EmptyDb]]
    /\ UNCHANGED <<tvars, xvars, svars>>

\* except Exception: with engine.begin() as conn: update_sync_state(conn,
\* entity, 0, "error: ..."), committed on its own
CExcept ==
    /\ \E p \in Runs :
         /\ txn[p].pc = "except"
         /\ ~Blocked(p)
         /\ LET entity == TRANSFORMS[txn[p].idx]
            IN  /\ db' = update_sync_state(db, entity, 0, ErrorStatus(DbError), now)
                /\ txn' = [txn EXCEPT ![p] =
                             [@ EXCEPT !.pc = AfterIteration(txn[p].idx),
                                       !.idx = Min(txn[p].idx + 1, Len(TRANSFORMS)),
                                       !.results = (entity :> -1) @@ @]]
    /\ UNCHANGED <<raw, now, pc, idx, results, runs, faults, last_run, attempt, xvars, svars>>

\* The contacts extractor lands one of the few snapshots, at any time
LoadContacts ==
    /\ SnapCount(raw) < MaxSnap
    /\ \E later \in BOOLEAN :
         \E s \in LandedFew(IF later THEN now + 1 ELSE now).raw_contacts_api :
            /\ raw' = [raw EXCEPT !.raw_contacts_api = Append(@, s)]
            /\ now' = s.loaded_at
    /\ UNCHANGED <<db, pc, idx, results, runs, faults, last_run, attempt, xvars, svars, txn>>

NextConcurrent ==
    LoadContacts \/ CStart \/ CSelect \/ CStatement \/ CCommit \/ CDeadlock \/ CExcept

SpecConcurrent == Init /\ [][NextConcurrent]_vars

\* ------------------------------------------------------------------------
\* The transform over raw rows of more than one tenant
\* ------------------------------------------------------------------------
\* tenant_id of a raw row: NULL, or the tenant the extractor ran for
RawTenants == {NULL, "demo"}

\* The few snapshots, landed for each tenant
LandedTenants(ts) ==
    [t \in RawTables |->
        { [s EXCEPT !.tenant_id = tn] : s \in LandedFew(ts)[t], tn \in RawTenants }]

LoadTenants ==
    /\ pc = "idle"
    /\ SnapCount(raw) < MaxSnap
    /\ \E later \in BOOLEAN, t \in RawTables :
         \E s \in LandedTenants(IF later THEN now + 1 ELSE now)[t] :
            /\ raw' = [raw EXCEPT ![t] = Append(@, s)]
            /\ now' = s.loaded_at
    /\ UNCHANGED <<db, pc, idx, results, runs, faults, last_run, attempt, xvars, svars, txn>>

NextTenants == LoadTenants \/ MainStart \/ TransformEntity \/ MainReturn

SpecTenants == Init /\ [][NextTenants]_vars

\* ------------------------------------------------------------------------
\* Properties of the transform
\* ------------------------------------------------------------------------
Entities == { TRANSFORMS[k] : k \in DOMAIN TRANSFORMS }

\* The normalized tables of a database, without sync_state
Normalized(d) ==
    [contacts |-> d.contacts, toques_daily |-> d.toques_daily,
     toques_heatmap |-> d.toques_heatmap, campaigns |-> d.campaigns,
     daily_stats |-> d.daily_stats]

\* Every entity of a results dict was transformed, none raised
AllUpserted(res) == DOMAIN res = Entities /\ \A e \in Entities : res[e] >= 0

\* The raw store is the one the results in hand were computed from
RawAsTransformed == pc = "running" \/ raw = last_run.raw

\* The entity was attempted in the run in hand and its attempt committed
Committed(entity) == entity \in DOMAIN results /\ results[entity] >= 0

\* The step is main() returning
Returns == pc = "running" /\ pc' = "idle"

\* C1: a second full run of main() over an unchanged raw store, both runs
\* without a failed entity, leaves every normalized table as the first run
\* left it.
C1_SecondRunChangesNothing ==
    [][ (/\ Returns
         /\ runs >= 1
         /\ raw = last_run.raw
         /\ AllUpserted(results)
         /\ AllUpserted(last_run.results))
        => Normalized(db) = Normalized(last_run.db) ]_vars

\* No two candidate rows of a partition are peers of the sort, and no two
\* fetched heatmap rows share a natural key
NoPeers ==
    /\ \A e \in {"contacts", "toques_daily", "campaigns"} :
         LET flat == CASE e = "contacts"     -> ContactsFlattened(raw)
                       [] e = "toques_daily" -> ToquesDailyFlattened(raw)
                       [] e = "campaigns"    -> { c \in CampaignsFlattened(raw) :
                                                    c.campana_id # NULL }
         IN  \A a, b \in flat :
                (PartitionKey(e, a) = PartitionKey(e, b) /\ a # b)
                    => (SortsBefore(e, a, b) \/ SortsBefore(e, b, a))
    /\ \A a, b \in HeatmapRawRows(raw) : a # b => a.loaded_at # b.loaded_at
    /\ \A fetched \in HEATMAP_SQL(raw) : \A a, b \in fetched :
         NaturalKey("toques_heatmap", a) = NaturalKey("toques_heatmap", b) => a = b

\* C1, where SQL leaves no order open: the second run changes nothing.
SecondRunChangesNothingWithoutPeers ==
    [][ (/\ Returns
         /\ runs >= 1
         /\ raw = last_run.raw
         /\ (QueryRaises("contacts", raw) \/ QueryRaises("toques_daily", raw) \/ NoPeers)
         /\ AllUpserted(results)
         /\ AllUpserted(last_run.results))
        => Normalized(db) = Normalized(last_run.db) ]_vars

\* The natural keys of the rows an entity's query selects
SelectedKeys(entity) ==
    { { NaturalKey(entity, r) : r \in fetched } : fetched \in Query(entity, raw, db) }

\* C2: every normalized table holds at most one row per natural key, and a
\* row for every natural key the entity's query selected in an attempt that
\* committed.
C2_OneRowPerNaturalKey ==
    /\ \A e \in Entities : \A r1, r2 \in db[e] :
         NaturalKey(e, r1) = NaturalKey(e, r2) => r1 = r2
    /\ \A e \in Entities :
         (Committed(e) /\ RawAsTransformed)
            => \E keys \in SelectedKeys(e) :
                 \A k \in keys : Cardinality({ r \in db[e] : NaturalKey(e, r) = k }) = 1

C2_Witness ==
    /\ pc = "idle"
    /\ runs = 2
    /\ raw = last_run.raw
    /\ AllUpserted(results)
    /\ \E r \in db.contacts :
         Cardinality({ c \in ContactsFlattened(raw) :
                         <<c.tenant_id, c.contact_id>> = NaturalKey("contacts", r) }) >= 2
    /\ \E r \in db.campaigns :
         Cardinality({ c \in CampaignsFlattened(raw) :
                         <<c.tenant_id, c.campana_id>> = NaturalKey("campaigns", r) }) >= 2

\* The row transform_toques_daily writes for a candidate row of the query
ToquesDailyWritten(c) ==
    [tenant_id |-> c.tenant_id, date |-> c.date, canal |-> c.canal,
     proyecto_cuenta |-> c.proyecto_cuenta,
     enviados |-> c.enviados, entregados |-> c.entregados, clicks |-> c.clicks,
     chunks |-> 0, usuarios_unicos |-> 0, abiertos |-> c.abiertos, rebotes |-> 0,
     bloqueados |-> 0, spam |-> 0, desuscritos |-> 0, conversiones |-> 0,
     ctr |-> Ratio(c.clicks, c.enviados),
     tasa_entrega |-> Ratio(c.entregados, c.enviados),
     open_rate |-> Ratio(c.abiertos, c.entregados), conversion_rate |-> 0]

\* The row transform_campaigns writes for a candidate row of the query
CampaignsWritten(c) == CampaignsParams(CampaignsRow(c))

\* C3: after a committed attempt, the toques_daily row and the campaigns row
\* of every natural key of the raw store carry the values of a candidate row
\* from a snapshot with the greatest loaded_at among those holding that key.
C3_LatestSnapshotWins ==
    /\ (Committed("toques_daily") /\ RawAsTransformed)
         => \A c \in ToquesDailyFlattened(raw) :
              \E w \in ToquesDailyFlattened(raw) :
                /\ NaturalKey("toques_daily", w) = NaturalKey("toques_daily", c)
                /\ \A o \in ToquesDailyFlattened(raw) :
                     NaturalKey("toques_daily", o) = NaturalKey("toques_daily", c)
                        => o.loaded_at <= w.loaded_at
                /\ ToquesDailyWritten(w) \in db.toques_daily
    /\ (Committed("campaigns") /\ RawAsTransformed)
         => \A c \in { x \in CampaignsFlattened(raw) : x.campana_id # NULL } :
              \E w \in CampaignsFlattened(raw) :
                /\ w.campana_id = c.campana_id /\ w.tenant_id = c.tenant_id
                /\ \A o \in CampaignsFlattened(raw) :
                     (o.campana_id = c.campana_id /\ o.tenant_id = c.tenant_id)
                        => o.loaded_at <= w.loaded_at
                /\ CampaignsWritten(w) \in db.campaigns

\* Two snapshots of different loaded_at hold the same key with different
\* values, and both transforms committed
C3_Witness ==
    /\ pc = "idle"
    /\ raw = last_run.raw
    /\ Committed("toques_daily")
    /\ Committed("campaigns")
    /\ \/ \E a, b \in ToquesDailyFlattened(raw) :
            /\ NaturalKey("toques_daily", a) = NaturalKey("toques_daily", b)
            /\ a.loaded_at < b.loaded_at
            /\ a.enviados # b.enviados
            /\ ToquesDailyWritten(b) \in db.toques_daily
       \/ \E a, b \in CampaignsFlattened(raw) :
            /\ a.campana_id # NULL
            /\ a.campana_id = b.campana_id
            /\ a.loaded_at < b.loaded_at
            /\ a.campana_nombre # b.campana_nombre
            /\ CampaignsWritten(b) \in db.campaigns

\* C4: when two contact snapshots loaded at t1 < t2 hold the same
\* (tenant_id, contact_id) with different profileName, the contacts table has
\* one row for the key after the contacts transform, and its contact_name is
\* the profileName of the snapshot loaded at t2.
C4_LaterSnapshotNamesContact ==
    (Committed("contacts") /\ RawAsTransformed)
       => \A a, b \in ContactsFlattened(raw) :
            (/\ NaturalKey("contacts", a) = NaturalKey("contacts", b)
             /\ a.loaded_at < b.loaded_at
             /\ a.contact_name # b.contact_name
             /\ \A o \in ContactsFlattened(raw) :
                  NaturalKey("contacts", o) = NaturalKey("contacts", a)
                     => /\ o.loaded_at <= b.loaded_at
                        /\ (o.loaded_at = b.loaded_at => o.contact_name = b.contact_name))
            => /\ Cardinality({ r \in db.contacts :
                                  NaturalKey("contacts", r) = NaturalKey("contacts", b) }) = 1
               /\ \A r \in db.contacts :
                    NaturalKey("contacts", r) = NaturalKey("contacts", b)
                       => r.contact_name = b.contact_name

\* The sync_state row update_sync_state(conn, entity, records, status) leaves
SyncRow(entity, records, status, ts) ==
    [tenant_id |-> TENANT_ID, entity |-> entity, records_synced |-> records,
     status |-> status, last_sync_at |-> ts]

\* The loop over TRANSFORMS is over
LoopDone == pc = "running" /\ idx > Len(TRANSFORMS)

\* C5: when the loop of main() is over, every entity of TRANSFORMS was
\* attempted, whichever of them raised, and every entity that did not raise
\* is committed: its table has a row for each key its query selected and its
\* sync_state row says success, with the count main() reports.
C5_FailureIsolation ==
    LoopDone =>
        /\ DOMAIN results = Entities
        /\ \A e \in Entities :
             results[e] >= 0 =>
                /\ SyncRow(e, results[e], Success, now) \in db.sync_state
                /\ \E keys \in SelectedKeys(e) :
                     \A k \in keys : \E r \in db[e] : NaturalKey(e, r) = k

\* campaigns raised, and contacts before it and daily_stats after it committed
C5_Witness ==
    /\ LoopDone
    /\ DOMAIN results = Entities
    /\ results["campaigns"] = -1
    /\ results["contacts"] >= 1
    /\ results["daily_stats"] >= 0
    /\ SyncRow("contacts", results["contacts"], Success, now) \in db.sync_state
    /\ db.contacts # {}

\* The step is one iteration of main()'s loop
Attempted == pc = "running" /\ idx' # idx

\* status is 'error: ' followed by at most the first 200 characters of msg
IsErrorStatus(status, msg) ==
    \E n \in 0..200 : n <= Len(msg) /\ status = ErrorPrefix \o SubSeq(msg, 1, n)

\* The sync_state row of the entity is an error row of this attempt
ErrorRowWritten(d, entity, msg, ts) ==
    \E r \in d.sync_state :
        /\ r.tenant_id = TENANT_ID
        /\ r.entity = entity
        /\ r.records_synced = 0
        /\ r.last_sync_at = ts
        /\ IsErrorStatus(r.status, msg)

LoopPaths ==
    IF x_ext = NULL THEN {}
    ELSE { Endpoints(x_ext)[k].path
           : k \in { j \in DOMAIN Endpoints(x_ext) : Endpoints(x_ext)[j].kind = "loop" } }

\* The requests of the page loop, and the snapshots it stored
LoopCalls == { k \in DOMAIN x_calls : x_calls[k].path \in LoopPaths }
LoopSnapshots == { k \in DOMAIN x_raw : x_raw[k].endpoint \in LoopPaths }

\* Every request of the page loop was answered with a page and stored
LoopUndisturbed ==
    /\ \A k \in LoopCalls : x_calls[k].answer = "doc"
    /\ \A k \in DOMAIN x_log : x_log[k] \notin LoopPaths

\* C7, as stated: over a list of k - 1 full pages and a last page of
\* 0 < sk < page size items, the page loop issues k calls and stores k
\* snapshots.
C7_KPagesKCalls ==
    (x_pc = "returned" /\ LoopPaths # {} /\ LoopUndisturbed /\ api.last > 0)
        => /\ Cardinality(LoopCalls) = api.full + 1
           /\ Cardinality(LoopSnapshots) = api.full + 1

\* C7, amended: over a list of k - 1 full pages and a last page of
\* 0 < sk < page size items, the page loop issues min(k, MAX_PAGES) calls and
\* stores min(k, MAX_PAGES) snapshots.
C7_KPagesUpToMaxPages ==
    (x_pc = "returned" /\ LoopPaths # {} /\ LoopUndisturbed /\ api.last > 0)
        => /\ Cardinality(LoopCalls) = Min(api.full + 1, MAX_PAGES)
           /\ Cardinality(LoopSnapshots) = Min(api.full + 1, MAX_PAGES)

\* Two full pages and one of 23 items: three calls, three snapshots
C7_Witness ==
    /\ x_pc = "returned"
    /\ LoopPaths # {}
    /\ LoopUndisturbed
    /\ api = [full |-> 2, last |-> 23]
    /\ Cardinality(LoopCalls) = 3
    /\ Cardinality(LoopSnapshots) = 3
    /\ \A k \in LoopSnapshots : x_raw[k].source_data.n = (IF x_raw[k].source_data.page < 2
                                                          THEN page_size ELSE 23)

\* C8: a page loop issues at most MAX_PAGES requests and stores at most
\* MAX_PAGES snapshots, and _extract_for_app, once called, comes to its end.
C8_AtMostMaxPages ==
    /\ [](/\ Cardinality(LoopCalls) <= MAX_PAGES
          /\ Cardinality(LoopSnapshots) <= MAX_PAGES)
    /\ (x_pc = "call" ~> x_pc = "returned")

\* MAX_PAGES full pages were served and stored, more were there, and the loop ended
C8_Witness ==
    /\ x_pc = "returned"
    /\ LoopUndisturbed
    /\ api.full = MAX_PAGES
    /\ Cardinality(LoopCalls) = MAX_PAGES
    /\ Cardinality(LoopSnapshots) = MAX_PAGES
    /\ \A k \in LoopSnapshots : x_raw[k].source_data.n = page_size

\* x_raw holds a snapshot of page p of the list
PageStored(p) == \E k \in LoopSnapshots : x_raw[k].source_data.page = p

\* The request about to be issued belongs to the page loop
AtLoopCall == x_pc = "call" /\ Endpoints(x_ext)[x_phase].kind = "loop"

\* C9: when the page loop is about to issue the request for page n, the
\* snapshots of pages 0..n-1 are in the raw store, and no step of the
\* extraction, failing or not, takes a stored snapshot away.
C9_StoredBeforeNextRequest ==
    /\ [](AtLoopCall => \A p \in 0..(x_page - 1) : PageStored(p))
    /\ [][ /\ Len(x_raw') >= Len(x_raw)
           /\ SubSeq(x_raw', 1, Len(x_raw)) = x_raw ]_vars

\* Two pages were stored, the third request or its store failed, and the two
\* are still there at the end
C9_Witness ==
    /\ x_pc = "returned"
    /\ \E k \in DOMAIN x_log : x_log[k] \in LoopPaths
    /\ Cardinality(LoopCalls) = 3
    /\ PageStored(0)
    /\ PageStored(1)

\* Every endpoint of the extractor was requested
AllRequested ==
    \A j \in DOMAIN Endpoints(x_ext) :
        \E k \in DOMAIN x_calls : x_calls[k].path = Endpoints(x_ext)[j].path

\* C10: no exception of the client or of _store_raw leaves _extract_for_app,
\* and when it returns every endpoint of the extractor has been requested.
C10_SiblingsStillRequested ==
    /\ x_pc # "raised"
    /\ x_pc = "returned" => AllRequested

\* The first endpoint failed, and the extractor went on and returned
C10_Witness ==
    /\ x_pc = "returned"
    /\ x_log # <<>>
    /\ x_log[1] = Endpoints(x_ext)[1].path
    /\ Len(Endpoints(x_ext)) >= 2
    /\ AllRequested

\* ------------------------------------------------------------------------
\* Properties of the merge rules
\* ------------------------------------------------------------------------
\* The step is a committed attempt of the entity's transform
CommitsAttempt(entity) ==
    Attempted /\ attempt'.entity = entity /\ ~attempt'.raised

\* new is old merged with the fetched row r by the contact upsert's date rule
DatesMerged(old, r, new) ==
    /\ new.first_contact = Least(old.first_contact, r.first_contact)
    /\ new.last_contact = Greatest(old.last_contact, r.last_contact)

\* C11: a committed contacts attempt leaves, for every row that existed,
\* first_contact the minimum and last_contact the maximum of the stored value
\* and the value of the row the query selected for the key (a NULL on either
\* side yields the other), so first_contact never moves later and
\* last_contact never moves earlier, in this attempt or in a failed one.
C11_ContactDatesMonotone ==
    [][ /\ CommitsAttempt("contacts")
           => \E fetched \in CONTACTS_SQL(raw) :
                \A old \in db.contacts :
                  \E new \in db'.contacts :
                    /\ NaturalKey("contacts", new) = NaturalKey("contacts", old)
                    /\ \/ /\ \A r \in fetched :
                               NaturalKey("contacts", r) # NaturalKey("contacts", old)
                          /\ new = old
                       \/ \E r \in fetched :
                            /\ NaturalKey("contacts", r) = NaturalKey("contacts", old)
                            /\ DatesMerged(old, r, new)
        /\ \A old \in db.contacts :
             \E new \in db'.contacts :
               /\ NaturalKey("contacts", new) = NaturalKey("contacts", old)
               /\ old.first_contact # NullInt
                    => (new.first_contact # NullInt /\ new.first_contact <= old.first_contact)
               /\ old.last_contact # NullInt
                    => (new.last_contact # NullInt /\ new.last_contact >= old.last_contact)
      ]_vars

\* A contact keeps a first_contact earlier than the one of the row every
\* later query selects for it
C11_Witness ==
    /\ pc = "idle"
    /\ runs = 2
    /\ Committed("contacts")
    /\ raw = last_run.raw
    /\ \E row \in db.contacts :
         /\ row.first_contact # NullInt
         /\ \A fetched \in CONTACTS_SQL(raw) :
              \E r \in fetched :
                /\ NaturalKey("contacts", r) = NaturalKey("contacts", row)
                /\ r.first_contact > row.first_contact
                /\ r.last_contact = row.last_contact

\* The counters of a toques_daily row or fetched row
ToquesDailyCounters(r) == <<r.enviados, r.entregados, r.abiertos, r.clicks>>

\* The counters of a campaigns row or fetched row
CampaignsCounters(r) ==
    <<r.total_enviados, r.total_entregados, r.total_clicks, r.total_abiertos,
      r.total_rebotes, r.total_bloqueados, r.total_spam, r.total_desuscritos,
      r.total_conversiones>>

\* C12: after a committed attempt, the counters of every toques_daily row
\* and campaigns row the query selected equal the counters of the selected
\* (deduplicated) row, whatever the table held before and however many runs
\* came before.
C12_CountersOverwritten ==
    /\ (Committed("toques_daily") /\ RawAsTransformed)
         => \E fetched \in TOQUES_DAILY_SQL(raw) :
              \A r \in fetched : \A row \in db.toques_daily :
                 NaturalKey("toques_daily", row) = NaturalKey("toques_daily", r)
                    => ToquesDailyCounters(row) = ToquesDailyCounters(r)
    /\ (Committed("campaigns") /\ RawAsTransformed)
         => \E fetched \in CAMPAIGNS_SQL(raw) :
              \A r \in fetched : \A row \in db.campaigns :
                 NaturalKey("campaigns", row) = NaturalKey("campaigns", r)
                    => CampaignsCounters(row) = CampaignsCounters(r)

\* In a second run, a toques_daily row and a campaigns row that held nonzero
\* counters after the first run have been upserted again
C12_Witness ==
    /\ pc = "running"
    /\ runs = 1
    /\ Committed("toques_daily")
    /\ Committed("campaigns")
    /\ \E row \in db.toques_daily : \E old \in last_run.db.toques_daily :
         /\ NaturalKey("toques_daily", row) = NaturalKey("toques_daily", old)
         /\ old.enviados > 0
         /\ row.enviados > 0
    /\ \E row \in db.campaigns : \E old \in last_run.db.campaigns :
         /\ NaturalKey("campaigns", row) = NaturalKey("campaigns", old)
         /\ old.total_enviados > 0
         /\ row.total_enviados > 0

\* ------------------------------------------------------------------------
\* Properties of the derived ratios
\* ------------------------------------------------------------------------
\* C13: every ratio stored in toques_daily and campaigns is 0 when its
\* denominator is 0 (ctr and tasa_entrega over enviados, open_rate over
\* entregados, conversion_rate over clicks), and an attempt of either
\* transform raises only when a cast of its SELECT does, never over a zero
\* denominator.
C13_RatioGuard ==
    /\ \A row \in db.toques_daily :
         /\ row.enviados = 0 => (row.ctr = 0 /\ row.tasa_entrega = 0)
         /\ row.entregados = 0 => row.open_rate = 0
    /\ \A row \in db.campaigns :
         /\ row.total_enviados = 0 => (row.ctr = 0 /\ row.tasa_entrega = 0)
         /\ row.total_entregados = 0 => row.open_rate = 0
         /\ row.total_clicks = 0 => row.conversion_rate = 0
    /\ \A e \in {"toques_daily", "campaigns"} :
         (pc = "running" /\ e \in DOMAIN results /\ results[e] < 0) => QueryRaises(e, raw)

\* Rows with a zero denominator were written by committed attempts, one of
\* them with a nonzero numerator
C13_Witness ==
    /\ Committed("toques_daily")
    /\ Committed("campaigns")
    /\ \E row \in db.toques_daily : row.enviados = 0 /\ row.ctr = 0
    /\ \E row \in db.campaigns :
         row.total_clicks = 0 /\ row.total_conversiones > 0 /\ row.conversion_rate = 0

\* ------------------------------------------------------------------------
\* Properties of sync_state
\* ------------------------------------------------------------------------
\* The sync_state rows of an entity
SyncRowsOf(d, entity) ==
    { r \in d.sync_state : r.tenant_id = TENANT_ID /\ r.entity = entity }

\* The messages an attempt of the model can raise with
Messages == {CastError, DbError}

C16_OneSyncRowPerEntity ==
    /\ [](\A r1, r2 \in db.sync_state :
            (r1.tenant_id = r2.tenant_id /\ r1.entity = r2.entity) => r1 = r2)
    /\ [][ /\ \A r \in db.sync_state : SyncRowsOf(db', r.entity) # {}
           /\ Attempted =>
                /\ \A e \in Entities \ {attempt'.entity} :
                     SyncRowsOf(db', e) = SyncRowsOf(db, e)
                /\ ~attempt'.raised =>
                     SyncRowsOf(db', attempt'.entity)
                        = {SyncRow(attempt'.entity, attempt'.executed, Success, now)}
                /\ (attempt'.raised /\ attempt'.written) =>
                     SyncRowsOf(db', attempt'.entity)
                        = {SyncRow(attempt'.entity, 0, ErrorStatus(attempt'.msg), now)}
           /\ ~Attempted => db'.sync_state = db.sync_state ]_vars

\* The row of a pair written in the first run has been overwritten in the
\* second, with the rows of the four other entities beside it
C16_Witness ==
    /\ pc = "running"
    /\ runs = 1
    /\ Cardinality(db.sync_state) = Len(TRANSFORMS)
    /\ \E e \in DOMAIN results :
         \E new \in SyncRowsOf(db, e) : \E old \in SyncRowsOf(last_run.db, e) :
            /\ new.last_sync_at > old.last_sync_at
            /\ new.status # old.status
            /\ new.records_synced # old.records_synced

\* ------------------------------------------------------------------------
\* Properties of the raw store
\* ------------------------------------------------------------------------
\* Every snapshot of rw is in rw2, at the same place and with the same content
Extends(rw2, rw) ==
    \A t \in RawTables :
        /\ Len(rw2[t]) >= Len(rw[t])
        /\ SubSeq(rw2[t], 1, Len(rw[t])) = rw[t]

\* C15: no step of a transform run - start, an attempt that commits or
\* raises, return - changes the raw.* tables, and a step of an extractor only
\* adds snapshots to them.
C15_RawStoreImmutable ==
    [][ /\ (pc = "running" \/ pc' = "running") => raw' = raw
        /\ Extends(raw', raw) ]_vars

\* A run over a full raw store in which one entity raised and another
\* committed rows has returned, with the snapshots still there
C15_Witness ==
    /\ pc = "idle"
    /\ runs >= 1
    /\ raw = last_run.raw
    /\ SnapCount(raw) = MaxSnap
    /\ \E e \in Entities : results[e] < 0
    /\ \E e \in Entities : results[e] >= 1

\* C17: after a committed attempt, the entity's sync_state row has
\* records_synced equal to the number of distinct natural keys the entity's
\* query selected, one upserted row each.
C17_RecordsSyncedCountsKeys ==
    \A e \in Entities :
        (Committed(e) /\ RawAsTransformed)
            => \E keys \in SelectedKeys(e) :
                 /\ \A k \in keys : \E r \in db[e] : NaturalKey(e, r) = k
                 /\ \A r \in SyncRowsOf(db, e) : r.records_synced = Cardinality(keys)

\* What holds instead: records_synced is the number of rows the query
\* returned, each of which was passed to one upsert statement; for every
\* entity but toques_heatmap that is the number of distinct natural keys.
RecordsSyncedCountsFetchedRows ==
    \A e \in Entities :
        (Committed(e) /\ RawAsTransformed)
            => \E fetched \in Query(e, raw, db) :
                 /\ \A r \in SyncRowsOf(db, e) : r.records_synced = Cardinality(fetched)
                 /\ e # "toques_heatmap"
                      => Cardinality(fetched)
                            = Cardinality({ NaturalKey(e, r) : r \in fetched })

\* ------------------------------------------------------------------------
\* Properties of the daily_stats rollup
\* ------------------------------------------------------------------------
\* coalesce(sum(enviados), 0) over the toques_daily rows of a date
EnviadosOn(d, day) ==
    SumEnviados({ t \in d.toques_daily : t.tenant_id = TENANT_ID /\ t.date = day })

\* C18: the daily_stats attempt of a run comes after its toques_daily attempt
\* has committed or rolled back; when it commits, every date of the committed
\* toques_daily rows has total_messages equal to the sum of their enviados;
\* and a toques_daily attempt that raises leaves toques_daily as committed
\* before, so that is what daily_stats reads.
C18_DailyStatsOverCommitted ==
    [][ /\ (Attempted /\ attempt'.entity = "daily_stats")
             => /\ "toques_daily" \in DOMAIN results
                /\ db'.toques_daily = db.toques_daily
        /\ CommitsAttempt("daily_stats")
             => \A t \in db.toques_daily :
                  \E row \in db'.daily_stats :
                    /\ row.tenant_id = t.tenant_id
                    /\ row.date = t.date
                    /\ row.total_messages = EnviadosOn(db, t.date)
        /\ (Attempted /\ attempt'.entity = "toques_daily" /\ attempt'.raised)
             => db'.toques_daily = db.toques_daily ]_vars

\* In a second run toques_daily raised and daily_stats committed, its totals
\* the sums over the rows the first run committed
C18_Witness ==
    /\ LoopDone
    /\ runs = 1
    /\ results["toques_daily"] < 0
    /\ results["daily_stats"] >= 1
    /\ db.toques_daily = last_run.db.toques_daily
    /\ \E row \in db.daily_stats :
         /\ row.total_messages > 0
         /\ row.total_messages = EnviadosOn(db, row.date)
         /\ Cardinality({ t \in db.toques_daily : t.date = row.date }) >= 2

\* ------------------------------------------------------------------------
\* Properties of the selection of raw snapshots
\* ------------------------------------------------------------------------
\* The raw store without the snapshots of a table that come from another
\* endpoint than the given one
FromEndpoint(rw, tbl, endpoint) ==
    [rw EXCEPT ![tbl] = SelectSeq(@, LAMBDA snap : snap.endpoint = endpoint)]

\* The raw store with one snapshot of raw_push_stats alone
OnlyPushSnapshot(rw, k) == [rw EXCEPT !.raw_push_stats = <<rw.raw_push_stats[k]>>]

\* C19: every normalized row comes from a snapshot of its entity's source
\* endpoint: contacts from /v1/chat/contacts, campaigns from /v1/campaign,
\* toques_daily from dateStats, toques_heatmap from pushHeatmap.
C19_RowsFromOwnEndpoint ==
    /\ \A row \in db.contacts :
         \E c \in ContactsFlattened(FromEndpoint(raw, "raw_contacts_api",
                                                 <<"v1", "chat", "contacts">>)) :
            /\ NaturalKey("contacts", c) = NaturalKey("contacts", row)
            /\ c.contact_name = row.contact_name
    /\ \A row \in db.campaigns :
         \E c \in CampaignsFlattened(FromEndpoint(raw, "raw_campaigns_api",
                                                  <<"v1", "campaign">>)) :
            CampaignsWritten(c) = row
    /\ \A row \in db.toques_daily :
         \E c \in ToquesDailyFlattened(FromEndpoint(raw, "raw_push_stats",
                                 <<"v1", "application", APP_ID, "dateStats">>)) :
            ToquesDailyWritten(c) = row
    /\ \A row \in db.toques_heatmap :
         \E k \in DOMAIN raw.raw_push_stats :
            /\ raw.raw_push_stats[k].endpoint = <<"v1", "application", APP_ID, "pushHeatmap">>
            /\ \E fetched \in HEATMAP_SQL(OnlyPushSnapshot(raw, k)) :
                 \E r \in fetched :
                    /\ NaturalKey("toques_heatmap", r) = NaturalKey("toques_heatmap", row)
                    /\ r.ctr = row.ctr

\* What holds instead: the push transforms take rows from their own endpoint
\* only, and contacts and campaigns from any snapshot of their raw table.
RowsFromOwnRawTable ==
    /\ \A row \in db.contacts :
         \E c \in ContactsFlattened(raw) :
            /\ NaturalKey("contacts", c) = NaturalKey("contacts", row)
            /\ c.contact_name = row.contact_name
    /\ \A row \in db.campaigns :
         \E c \in CampaignsFlattened(raw) : CampaignsWritten(c) = row
    /\ \A row \in db.toques_daily :
         \E c \in ToquesDailyFlattened(FromEndpoint(raw, "raw_push_stats",
                                 <<"v1", "application", APP_ID, "dateStats">>)) :
            ToquesDailyWritten(c) = row

\* ------------------------------------------------------------------------
\* Properties of malformed payloads
\* ------------------------------------------------------------------------
\* Natural keys of the rows an entity's query flattens from well-formed
\* elements: those whose casts succeed
WellFormedKeys(entity, rw, conn) ==
    CASE entity = "contacts" ->
            { NaturalKey(entity, c) :
                c \in { x \in ContactsFlattened(rw) :
                          x.first_contact # BadInt /\ x.last_contact # BadInt } }
      [] entity = "toques_daily" ->
            { NaturalKey(entity, c) :
                c \in { x \in ToquesDailyFlattened(rw) : x.date # BadInt } }
      [] OTHER ->
            UNION { { NaturalKey(entity, r) : r \in fetched } :
                      fetched \in Query(entity, rw, conn) }

\* C20: with a database that executes every statement, an attempt never
\* raises whatever the payloads of the raw snapshots are: it ends with status
\* success and the table holds a row for every well-formed element's key.
C20_MalformedPayloadSkipped ==
    [][ Attempted =>
          /\ ~attempt'.raised
          /\ \A row \in SyncRowsOf(db', attempt'.entity) : row.status = Success
          /\ WellFormedKeys(attempt'.entity, raw, db)
               \subseteq { NaturalKey(attempt'.entity, r) : r \in Normalized(db')[attempt'.entity] } ]_vars

\* ------------------------------------------------------------------------
\* Properties of elements without a natural key
\* ------------------------------------------------------------------------
\* The array elements of the snapshots of a raw table, each with the index
\* of its snapshot
ElementsOf(tbl) ==
    UNION { { [i |-> i, elem |-> tbl[i].source_data.elems[j]]
              : j \in DOMAIN tbl[i].source_data.elems }
            : i \in { k \in DOMAIN tbl : tbl[k].source_data.type = "array" } }

\* The element has the fields of the entity's natural key
HasNaturalKey(entity, elem) ==
    CASE entity = "contacts"     -> elem.contactId # NULL
      [] entity = "toques_daily" -> elem.platformGroup # NULL /\ elem.statsDate # NullInt
      [] entity = "campaigns"    -> elem.id # NULL \/ elem.campaignId # NULL

\* The raw table an entity is flattened from
RawTableOf(entity) ==
    CASE entity = "contacts"     -> "raw_contacts_api"
      [] entity = "toques_daily" -> "raw_push_stats"
      [] entity = "campaigns"    -> "raw_campaigns_api"

\* The natural key the entity's row of an element has
ElementKey(entity, elem) ==
    CASE entity = "contacts"     -> <<TENANT_ID, elem.contactId>>
      [] entity = "toques_daily" -> <<TENANT_ID, elem.statsDate, elem.platformGroup, APP_ID>>
      [] entity = "campaigns"    -> <<TENANT_ID, Coalesce(elem.id, elem.campaignId)>>

\* The raw table holds a snapshot with an element without the natural key
\* next to one with it
Mixed(entity, rw) ==
    \E a, b \in ElementsOf(rw[RawTableOf(entity)]) :
        a.i = b.i /\ ~HasNaturalKey(entity, a.elem) /\ HasNaturalKey(entity, b.elem)

\* C21: no normalized row lacks a field of its natural key, and an attempt
\* that commits leaves a row for every element that has the natural key,
\* also for those that share a snapshot with an element that lacks it.
C21_KeylessElementsDiscarded ==
    /\ [](/\ \A row \in db.contacts : row.contact_id # NULL
          /\ \A row \in db.toques_daily : row.canal # NULL /\ row.date # NullInt
          /\ \A row \in db.campaigns : row.campana_id # NULL)
    /\ [][ \A e \in {"contacts", "toques_daily", "campaigns"} :
             CommitsAttempt(e) =>
               /\ attempt'.executed =
                    Cardinality({ ElementKey(e, x.elem) :
                                    x \in { y \in ElementsOf(raw[RawTableOf(e)]) :
                                              HasNaturalKey(e, y.elem) } })
               /\ \A x \in ElementsOf(raw[RawTableOf(e)]) :
                    HasNaturalKey(e, x.elem) =>
                      \E row \in Normalized(db')[e] :
                         NaturalKey(e, row) = ElementKey(e, x.elem) ]_vars

C21_Witness ==
    /\ LoopDone /\ AllUpserted(results)
    /\ Mixed("contacts", raw) /\ Mixed("campaigns", raw)
    /\ Cardinality(db.contacts) = 2 /\ Cardinality(db.campaigns) = 2

\* ------------------------------------------------------------------------
\* Properties of the choice among candidate rows
\* ------------------------------------------------------------------------
\* The entities whose query has a deduplicated CTE
DeduplicatedEntities == {"contacts", "toques_daily", "campaigns"}

\* C24: for every raw store, a deduplicating query has one result set: one
\* row per (tenant, natural key), and the same row whenever it is evaluated.
C24_DeduplicationDetermined ==
    \A e \in DeduplicatedEntities :
        /\ \A fetched \in Query(e, raw, db) : \A a, b \in fetched :
              NaturalKey(e, a) = NaturalKey(e, b) => a = b
        /\ \A f, g \in Query(e, raw, db) : f = g

\* What holds instead: one row per natural key in every result set, and one
\* result set where no two candidate rows of a key are peers of the sort.
DeduplicationDeterminedWithoutPeers ==
    \A e \in DeduplicatedEntities :
        /\ \A fetched \in Query(e, raw, db) : \A a, b \in fetched :
              NaturalKey(e, a) = NaturalKey(e, b) => a = b
        /\ NoPeers => \A f, g \in Query(e, raw, db) : f = g

\* ------------------------------------------------------------------------
\* Properties of empty answers
\* ------------------------------------------------------------------------
\* The single-call endpoints of the running extractor
SinglePaths ==
    IF x_ext = NULL THEN {}
    ELSE { Endpoints(x_ext)[k].path
           : k \in { j \in DOMAIN Endpoints(x_ext) : Endpoints(x_ext)[j].kind = "single" } }

\* The page loop of the running extractor
LoopEndpoint ==
    Endpoints(x_ext)[CHOOSE j \in DOMAIN Endpoints(x_ext) : Endpoints(x_ext)[j].kind = "loop"]

\* Request k of the page loop was answered None or with a page of no items
EmptyAnswer(k) ==
    \/ x_calls[k].answer = "none"
    \/ /\ x_calls[k].answer = "doc"
       /\ Served(LoopEndpoint, x_calls[k].params).n = 0

\* The page loop ends at an empty answer, and stores no page without items
EmptyAnswerEndsLoop ==
    /\ \A k \in LoopCalls : EmptyAnswer(k) => \A j \in LoopCalls : j <= k
    /\ \A k \in LoopSnapshots : x_raw[k].source_data.n > 0
    /\ Cardinality(LoopSnapshots)
         <= Cardinality({ k \in LoopCalls : x_calls[k].answer = "doc" /\ ~EmptyAnswer(k) })
    /\ (x_pc = "returned" /\ LoopPaths # {} /\ LoopUndisturbed /\ api.last = 0)
          => /\ Cardinality(LoopCalls) = Min(api.full + 1, MAX_PAGES)
             /\ Cardinality(LoopSnapshots) = Min(api.full, MAX_PAGES)

\* C25, as stated: an empty page or a None answer ends the page loop with no
\* snapshot and no further request (pages [p, p, 0]: 3 calls, 2 snapshots),
\* and a single call leaves a snapshot if and only if the client returned a
\* document.
C25_EmptyAnswerStops ==
    /\ EmptyAnswerEndsLoop
    /\ x_pc = "returned" =>
         \A p \in SinglePaths :
            (\E k \in DOMAIN x_raw : x_raw[k].endpoint = p)
               <=> (\E k \in DOMAIN x_calls : x_calls[k].path = p /\ x_calls[k].answer = "doc")

\* C25, amended: the same, and a single call leaves a snapshot if and only
\* if the client returned a document and _store_raw did not raise.
C25_EmptyAnswerStopsStoreMayFail ==
    /\ EmptyAnswerEndsLoop
    /\ x_pc = "returned" =>
         \A p \in SinglePaths :
            (\E k \in DOMAIN x_raw : x_raw[k].endpoint = p)
               <=> /\ \E k \in DOMAIN x_calls : x_calls[k].path = p /\ x_calls[k].answer = "doc"
                   /\ \A k \in DOMAIN x_log : x_log[k] # p

\* Two full pages and an empty one: three calls, two snapshots; the single
\* call after the loop was answered and stored
C25_Witness ==
    /\ x_pc = "returned"
    /\ LoopPaths # {}
    /\ LoopUndisturbed
    /\ api = [full |-> 2, last |-> 0]
    /\ Cardinality(LoopCalls) = 3
    /\ Cardinality(LoopSnapshots) = 2
    /\ EmptyAnswer(3) \/ EmptyAnswer(4)
    /\ \E p \in SinglePaths : \E k \in DOMAIN x_raw : x_raw[k].endpoint = p

\* ------------------------------------------------------------------------
\* Properties of the success row
\* ------------------------------------------------------------------------
\* The success rows of the entity written at ts
SuccessRowsAt(d, entity, ts) ==
    { r \in SyncRowsOf(d, entity) : r.status = Success /\ r.last_sync_at = ts }

LoopCallSeq == SelectSeq(x_calls, LAMBDA c : c.path \in LoopPaths)

LoopFailed == \E j \in DOMAIN x_log : x_log[j] \in LoopPaths

\* C28: a request of the page loop that raises is the loop's last; once the
\* loop has reported a page FAILED (its request or its store raised) it
\* issues no further request, so no later page and not the failed page
\* again; and the step that fails leaves the stored snapshots as they were.
C28_FailedPageStopsLoop ==
    /\ [](\A k \in DOMAIN LoopCallSeq :
             LoopCallSeq[k].answer = "raise" => k = Len(LoopCallSeq))
    /\ [][ /\ LoopFailed => LoopCallSeq' = LoopCallSeq
           /\ x_log' # x_log => x_raw' = x_raw
           /\ (x_log' # x_log /\ Endpoints(x_ext)[x_phase].kind = "loop")
                => ~(x_pc' = "call" /\ x_phase' = x_phase) ]_vars

\* Page 0 was stored, the store of page 1 raised, and the loop ended there
C28_Witness ==
    /\ x_pc = "returned"
    /\ LoopFailed
    /\ Len(LoopCallSeq) = 2
    /\ LoopCallSeq[2].answer = "doc"
    /\ api.full >= 2
    /\ PageStored(0)
    /\ ~PageStored(1)

\* ------------------------------------------------------------------------
\* Properties of sync_state over several tenants
\* ------------------------------------------------------------------------
\* C29: an attempt that commits leaves, for every tenant it wrote rows of,
\* a success row of that tenant and the entity whose records_synced is the
\* number of that tenant's rows.
C29_SyncRowPerTenant ==
    [][ \A e \in Entities :
          CommitsAttempt(e) =>
            \E fetched \in Query(e, raw, db) :
               /\ Cardinality(fetched) = attempt'.executed
               /\ \A tn \in { r.tenant_id : r \in fetched } :
                    \E s \in db'.sync_state :
                       /\ s.tenant_id = tn
                       /\ s.entity = e
                       /\ s.status = Success
                       /\ s.records_synced =
                            Cardinality({ r \in fetched : r.tenant_id = tn }) ]_vars

\* What holds instead: every sync_state row is a row of TENANT_ID, and the
\* success row of an attempt counts the upserts of all tenants together.
SyncRowOfOneTenant ==
    /\ [](\A s \in db.sync_state : s.tenant_id = TENANT_ID)
    /\ [][ \A e \in Entities :
             CommitsAttempt(e) =>
               \A s \in SuccessRowsAt(db', e, now) :
                  s.records_synced = attempt'.executed ]_vars

\* ------------------------------------------------------------------------
\* Properties of the application services
\* ------------------------------------------------------------------------
\* C23: whatever the tenant argument, the rows a DataService query or a
\* StorageService read returns are rows of the tenant it was called for,
\* and never rows of two tenants.
C23_ReadsTenantScoped ==
    answer.op # NULL =>
        /\ \A r \in answer.rows : r.tenant_id = answer.tenant
        /\ \A a, b \in answer.rows : a.tenant_id = b.tenant_id

\* What holds instead: the reads of StorageService, and the queries of
\* DataService that are given a tenant other than None and '', return rows
\* of that tenant only.
ReadsTenantScopedWhenNamed ==
    (answer.op # NULL /\ answer.tenant \in Tenants) =>
        \A r \in answer.rows : r.tenant_id = answer.tenant

\* Successful toggle calls completed on item id of tbl, by the clients cs
RECURSIVE TogglesOf(_, _, _)
TogglesOf(cs, tbl, id) ==
    IF cs = {} THEN 0
    ELSE LET c == CHOOSE x \in cs : TRUE
         IN  Len(SelectSeq(calls[c].completed, LAMBDA it : it = <<tbl, id>>))
               + TogglesOf(cs \ {c}, tbl, id)

\* C30: under every interleaving of calls, an item's is_favorite is its
\* initial value (False) negated once per successful toggle call completed
\* on it, and the is_favorite a call returns is the value stored right
\* after its update.
C30_ToggleFlipsOncePerCall ==
    /\ [](\A tbl \in ItemTables : \A r \in store[tbl] :
             r.is_favorite = (TogglesOf(Clients, tbl, r.id) % 2 = 1))
    /\ [][ \A c \in Clients :
             (calls[c].pc = "read" /\ calls'[c].pc = "idle") =>
                \A r \in store'[calls[c].tbl] :
                   r.id = calls[c].id => r.is_favorite = calls'[c].ret.is_favorite ]_vars

\* What holds instead: a call whose two blocks run with no other call's
\* update of the same item in between, and with the item visible to both,
\* flips is_favorite and returns the stored value.
ToggleFlipsWhenUndisturbed ==
    [][ \A c \in Clients :
          (calls[c].pc = "read" /\ calls'[c].pc = "idle") =>
             \A r \in Visible(calls[c].tbl) :
                (r.id = calls[c].id /\ r.tenant_id = calls[c].tenant
                   /\ r.is_favorite = calls[c].is_favorite)
                => \E r2 \in store'[calls[c].tbl] :
                      /\ r2.id = r.id
                      /\ r2.is_favorite = ~r.is_favorite
                      /\ calls'[c].ret.is_favorite = r2.is_favorite ]_vars

\* ------------------------------------------------------------------------
\* Properties of concurrent runs
\* ------------------------------------------------------------------------
\* Run p is between the SELECT of an entity's transform and the end of its
\* transaction
InTransaction(p) == txn[p].pc \in {"upsert", "commit"}

\* C22: two runs are never inside the read-and-upsert transaction of the
\* same entity at the same time.
C22_SameEntitySerialized ==
    \A p, q \in Runs :
        (p # q /\ InTransaction(p) /\ InTransaction(q)) => txn[p].idx # txn[q].idx

\* What holds instead: the uniqueness constraints and row locks keep one
\* committed row per natural key, and no two open transactions hold a write
\* on the same row.
OneRowPerKeyUnderConcurrency ==
    /\ \A tbl \in DOMAIN db : \A a, b \in db[tbl] :
          TableKey(tbl, a) = TableKey(tbl, b) => a = b
    /\ \A p, q \in Runs : p # q => Holds(p) \cap Holds(q) = {}

====
